---- MODULE Spec2Model ----
(***************************************************************************)
(* A model of the `contracts` procedural-macro crate: resolution of a      *)
(* contract's checking mode from the cargo features, parsing of an         *)
(* attribute's argument list, synthesis of the checked function body and   *)
(* the execution of the synthesized body.                                  *)
(*                                                                         *)
(* The sources hold three generations of the expansion pipeline, which are *)
(* modelled side by side and told apart by the variable `pipeline`:        *)
(*   "lib"      src/lib.rs: one expansion per attribute                    *)
(*   "mod"      src/implementation/mod.rs: FuncWithContracts::generate     *)
(*   "codegen"  src/implementation/codegen.rs: generate with old() and     *)
(*              the labeled block                                          *)
(***************************************************************************)
EXTENDS Integers, Sequences, FiniteSets, TLC

VARIABLES
    trait_,     \* a trait, [marked, attrs, state, items]
    impl_,      \* an impl block, [marked, attrs, state, items]
    callee,     \* the method entered last, [unit, name, env]
    features,   \* cargo features of the macro crate, fixed for a build
    build,      \* how the annotated crate is compiled: [test, debug_assertions]
    pipeline,   \* which generation of the expansion code is in use
    declared,   \* mode machine: the mode the attribute declares
    mode,       \* mode machine: the mode after the resolutions so far
    stage,      \* mode machine: "off", "declared", "entry", "synth"
    toks,       \* parser: the attribute's argument tokens
    parsed,     \* parser: the outcome of parse_attributes, once it has run
    func,       \* the annotated function as written: [name, attrs, body]
    out,        \* the function as expanded so far
    pc,         \* the call of the expanded function: "idle", "running", ...
    ip,         \* the next instruction of the expanded body
    x0,         \* the value of x the caller passed
    env,        \* the variables in scope of the call and their values
    result,     \* the value the call yielded
    panic,      \* the message the call aborted with
    trace,      \* what the call has evaluated so far, in order
    logged      \* the error-level diagnostics the call has recorded

vars == <<trait_, impl_, callee, features, build, pipeline, declared, mode, stage, toks, parsed,
          func, out, pc, ip, x0, env, result, panic, trace, logged>>

(***************************************************************************)
(* Bounds of the model.                                                    *)
(***************************************************************************)
MaxItems == 3
MaxAttrs == 2
MaxVal == 2

(***************************************************************************)
(* ContractMode and the feature flags.                                     *)
(***************************************************************************)
ContractMode == {"Always", "Disabled", "Debug", "Test", "LogOnly"}

FeatureSets ==
    [disable_contracts : BOOLEAN, override_debug : BOOLEAN,
     override_log : BOOLEAN, mirai_assertions : BOOLEAN]

NoFeatures ==
    [disable_contracts |-> FALSE, override_debug |-> FALSE,
     override_log |-> FALSE, mirai_assertions |-> FALSE]

\* A resolver that lets the disable flag reach test contracts too.
final_mode_disables_test(m) ==
    IF m = "Disabled" THEN m
    ELSE IF features.disable_contracts THEN "Disabled"
    ELSE IF m = "Test" THEN m
    ELSE IF features.override_debug
         THEN (IF m = "LogOnly" THEN m ELSE "Debug")
    ELSE IF features.override_log THEN "LogOnly"
    ELSE m

\* A resolver that applies the flags as a union: the log flag is looked at
\* before the debug flag.
final_mode_log_first(m) ==
    IF m = "Disabled" \/ m = "Test" THEN m
    ELSE IF features.disable_contracts THEN "Disabled"
    ELSE IF features.override_log THEN "LogOnly"
    ELSE IF features.override_debug THEN "Debug"
    ELSE m

\* A resolver that looks at the log flag first and lets the debug flag
\* move a LogOnly contract on to Debug.
final_mode_alternating(m) ==
    IF m = "Disabled" \/ m = "Test" THEN m
    ELSE IF features.disable_contracts THEN "Disabled"
    ELSE IF features.override_log /\ m # "LogOnly" THEN "LogOnly"
    ELSE IF features.override_debug THEN "Debug"
    ELSE m

\* implementation/mod.rs: final_mode
final_mode(m) ==
    IF m = "Disabled" \/ m = "Test" THEN m
    ELSE IF features.disable_contracts THEN "Disabled"
    ELSE IF features.override_debug
         THEN (IF m = "LogOnly" THEN m ELSE "Debug")
    ELSE IF features.override_log THEN "LogOnly"
    ELSE m

\* lib.rs: final_mode
lib_final_mode(m) ==
    IF m = "Disabled" \/ m = "Test" THEN m
    ELSE IF features.disable_contracts THEN "Disabled"
    ELSE IF features.override_debug
         THEN (IF m = "LogOnly" THEN m ELSE "Debug")
    ELSE IF features.override_log THEN "LogOnly"
    ELSE m

(***************************************************************************)
(* Expressions (syn::Expr), as tagged tuples:                              *)
(*   <<"path", name>>        an identifier used as an expression           *)
(*   <<"int", n>>            an integer literal                            *)
(*   <<"str", tok>>          a string literal; tok is its source token     *)
(*   <<"bin", op, l, r>>     a binary operation                            *)
(*   <<"call", f, args>>     a call of the expression f                    *)
(***************************************************************************)
Path(n) == <<"path", n>>
IntLit(n) == <<"int", n>>
StrLit(tok) == <<"str", tok>>
Bin(op, l, r) == <<"bin", op, l, r>>
ExprCall(f, args) == <<"call", f, args>>
OldCall(e) == ExprCall(Path("old"), <<e>>)

\* syn::LitStr::value: the token without its quotes, escapes resolved.
LitStr_value(tok) ==
    CASE tok = "\"in range\"" -> "in range"
      [] tok = "\"a \\\"b\\\"\"" -> "a \"b\""

\* format!("{:?}", s) of a String: quoted, with its quotes escaped.
fmt_debug(s) ==
    CASE s = "in range" -> "\"in range\""
      [] s = "a \"b\"" -> "\"a \\\"b\\\"\""

\* stringify!: the source text of an expression.
RECURSIVE stringify(_)
RECURSIVE stringify_args(_)
stringify(e) ==
    CASE e[1] = "path" -> e[2]
      [] e[1] = "int" -> ToString(e[2])
      [] e[1] = "str" -> e[2]
      [] e[1] = "bin" -> stringify(e[3]) \o " " \o e[2] \o " " \o stringify(e[4])
      [] e[1] = "call" -> stringify(e[2]) \o "(" \o stringify_args(e[3]) \o ")"

stringify_args(args) ==
    IF args = <<>> THEN ""
    ELSE IF Len(args) = 1 THEN stringify(args[1])
    ELSE stringify(args[1]) \o ", " \o stringify_args(Tail(args))

(***************************************************************************)
(* The attribute parser.  An argument list is the sequence of its items    *)
(* and whether a comma follows the last one.                               *)
(***************************************************************************)
ParseErr == [ok |-> FALSE, items |-> <<>>]
ParseOk(items) == [ok |-> TRUE, items |-> items]

\* syn: Punctuated::parse_separated_nonempty wants an item after every comma.
parse_separated_nonempty(ts) ==
    IF ts.items = <<>> \/ ts.trailing THEN ParseErr ELSE ParseOk(ts.items)

\* syn: Punctuated::parse_terminated accepts a comma after the last item.
parse_terminated(ts) ==
    IF ts.items = <<>> /\ ts.trailing THEN ParseErr ELSE ParseOk(ts.items)

NoDesc == <<>>

\* A parser that takes any trailing literal for the description.
parse_attributes_any_literal(ts) ==
    LET first == parse_separated_nonempty(ts)
        conds == IF first.ok THEN first ELSE parse_terminated(ts)
        n == Len(conds.items)
    IN  IF ~conds.ok THEN [state |-> "panic", exprs |-> <<>>, desc |-> NoDesc]
        ELSE IF n > 0 /\ conds.items[n][1] \in {"str", "int"}
             THEN [state |-> "ok", exprs |-> SubSeq(conds.items, 1, n - 1),
                   desc |-> <<IF conds.items[n][1] = "str"
                             THEN LitStr_value(conds.items[n][2])
                             ELSE ToString(conds.items[n][2])>>]
        ELSE [state |-> "ok", exprs |-> conds.items, desc |-> NoDesc]

\* implementation/parse.rs: parse_attributes
parse_attributes(ts) ==
    LET first == parse_separated_nonempty(ts)
        conds == IF first.ok THEN first ELSE parse_terminated(ts)
        n == Len(conds.items)
    IN  IF ~conds.ok THEN [state |-> "panic", exprs |-> <<>>, desc |-> NoDesc]
        ELSE IF n > 0 /\ conds.items[n][1] = "str"
             THEN [state |-> "ok", exprs |-> SubSeq(conds.items, 1, n - 1),
                   desc |-> <<LitStr_value(conds.items[n][2])>>]
        ELSE [state |-> "ok", exprs |-> conds.items, desc |-> NoDesc]

(***************************************************************************)
(* Contracts.                                                              *)
(***************************************************************************)
ContractType == {"Pre", "Post", "Invariant"}

\* implementation/mod.rs: ContractType::message_name
message_name(ty) ==
    CASE ty = "Pre" -> "Pre-condition"
      [] ty = "Post" -> "Post-condition"
      [] ty = "Invariant" -> "Invariant"

None == [some |-> FALSE, ty |-> "Pre", mode |-> "Always"]
Some(ty, m) == [some |-> TRUE, ty |-> ty, mode |-> m]

\* implementation/mod.rs: ContractType::contract_type_and_mode
contract_type_and_mode(ident) ==
    CASE ident = "pre" -> Some("Pre", "Always")
      [] ident = "post" -> Some("Post", "Always")
      [] ident = "invariant" -> Some("Invariant", "Always")
      [] ident = "debug_pre" -> Some("Pre", "Debug")
      [] ident = "debug_post" -> Some("Post", "Debug")
      [] ident = "debug_invariant" -> Some("Invariant", "Debug")
      [] ident = "test_pre" -> Some("Pre", "Test")
      [] ident = "test_post" -> Some("Post", "Test")
      [] ident = "test_invariant" -> Some("Invariant", "Test")
      [] OTHER -> None

\* lib.rs: the attribute macros the crate exports, each with the kind it
\* expands and the mode it declares.
lib_exported(ident) ==
    CASE ident = "pre" -> Some("Pre", "Always")
      [] ident = "debug_pre" -> Some("Pre", "Debug")
      [] ident = "test_pre" -> Some("Pre", "Test")
      [] ident = "__internal_log_pre" -> Some("Pre", "LogOnly")
      [] ident = "post" -> Some("Post", "Always")
      [] ident = "debug_post" -> Some("Post", "Debug")
      [] ident = "test_post" -> Some("Post", "Test")
      [] ident = "__internal_log_post" -> Some("Post", "LogOnly")
      [] ident = "invariant" -> Some("Invariant", "Always")
      [] ident = "debug_invariant" -> Some("Invariant", "Debug")
      [] ident = "test_invariant" -> Some("Invariant", "Test")
      [] ident = "__impl_log_invariant" -> Some("Invariant", "LogOnly")
      [] OTHER -> None

\* lib.rs: ContractMode::name, an Option as a sequence of at most one string
lib_name(m) ==
    CASE m = "Always" -> <<"">>
      [] m = "Disabled" -> <<>>
      [] m = "Debug" -> <<"debug_">>
      [] m = "Test" -> <<"test_">>
      [] m = "LogOnly" -> <<"__internal_log_">>

Attr(name, items, trailing) ==
    [name |-> name, args |-> [items |-> items, trailing |-> trailing]]

\* implementation/mod.rs: Contract::from_toks.  `streams` keeps the text
\* of each assertion as written, for the messages.
from_toks(ty, m, ts) ==
    LET p == parse_attributes(ts)
    IN  [ok |-> p.state = "ok", ty |-> ty, mode |-> m,
         assertions |-> p.exprs, streams |-> p.exprs, desc |-> p.desc]

(***************************************************************************)
(* The statements a contract expands to.  One emitted statement is         *)
(*   [log, macro, gate, exec, msg]                                         *)
(* log:   an `if !(exec) { log::error!(msg) }` block is emitted            *)
(* macro: the assertion macro invoked on exec, "" when there is none       *)
(* gate:  "none", "cfg_attr" (#[cfg(test)] { .. }) or "cfg_if"             *)
(*        (if cfg!(test) { .. })                                           *)
(***************************************************************************)
Stmt(log, macro, gate, exec, msg) ==
    [log |-> log, macro |-> macro, gate |-> gate, exec |-> exec, msg |-> msg]

\* concat!(concat!(#desc, ": "), stringify!(#expr))
format_args(desc, display) == (desc \o ": ") \o stringify(display)

RECURSIVE Flatten(_)
Flatten(seqs) ==
    IF seqs = <<>> THEN <<>> ELSE Head(seqs) \o Flatten(Tail(seqs))

IsPreKind(c) == c.ty = "Pre" \/ c.ty = "Invariant"
IsPostKind(c) == c.ty = "Post" \/ c.ty = "Invariant"

\* lib.rs: attributes_to_asserts
attributes_to_asserts(m, exprs, desc) ==
    LET generate(expr) ==
            CASE m = "Always" ->
                    <<Stmt(FALSE, "assert", "none", expr, format_args(desc, expr))>>
              [] m = "Disabled" -> <<>>
              [] m = "Debug" ->
                    <<Stmt(FALSE, "debug_assert", "none", expr, format_args(desc, expr))>>
              [] m = "Test" ->
                    <<Stmt(FALSE, "assert", "cfg_if", expr, format_args(desc, expr))>>
              [] m = "LogOnly" ->
                    <<Stmt(TRUE, "", "none", expr, format_args(desc, expr))>>
    IN  Flatten([i \in 1..Len(exprs) |-> generate(exprs[i])])

\* implementation/mod.rs: the make_assertion closure of generate
mod_make_assertion(m, expr, desc) ==
    CASE m = "Always" ->
            <<Stmt(FALSE, "assert", "none", expr, format_args(desc, expr))>>
      [] m = "Disabled" -> <<>>
      [] m = "Debug" ->
            <<Stmt(FALSE, "debug_assert", "none", expr, format_args(desc, expr))>>
      [] m = "Test" ->
            <<Stmt(FALSE, "assert", "cfg_attr", expr, format_args(desc, expr))>>
      [] m = "LogOnly" ->
            <<Stmt(TRUE, "", "none", expr, format_args(desc, expr))>>

\* implementation/codegen.rs: get_assert_macro, an Option as a sequence
get_assert_macro(ctype, m) ==
    IF features.mirai_assertions
    THEN CASE ctype = "Pre" /\ m = "Always" -> <<"checked_precondition">>
           [] ctype = "Pre" /\ m = "Debug" -> <<"debug_checked_precondition">>
           [] ctype = "Pre" /\ m = "Test" -> <<"debug_checked_precondition">>
           [] ctype = "Pre" /\ m = "Disabled" -> <<"precondition">>
           [] ctype = "Pre" /\ m = "LogOnly" -> <<"precondition">>
           [] ctype = "Post" /\ m = "Always" -> <<"checked_postcondition">>
           [] ctype = "Post" /\ m = "Debug" -> <<"debug_checked_postcondition">>
           [] ctype = "Post" /\ m = "Test" -> <<"debug_checked_postcondition">>
           [] ctype = "Post" /\ m = "Disabled" -> <<"postcondition">>
           [] ctype = "Post" /\ m = "LogOnly" -> <<"postcondition">>
    ELSE CASE m = "Always" -> <<"assert">>
           [] m = "Debug" -> <<"debug_assert">>
           [] m = "Test" -> <<"debug_assert">>
           [] m = "Disabled" -> <<>>
           [] m = "LogOnly" -> <<>>

\* A make_assertion that asserts the condition after logging it.
make_assertion_log_and_assert(m, ctype, display, exec_expr, desc) ==
    LET mac == IF m = "LogOnly" THEN <<"assert">> ELSE get_assert_macro(ctype, m)
        log == (m = "LogOnly")
        gate == IF m = "Test" THEN "cfg_attr" ELSE "none"
    IN  IF ~log /\ mac = <<>> THEN <<>>
        ELSE <<Stmt(log, IF mac = <<>> THEN "" ELSE mac[1], gate,
                    exec_expr, format_args(desc, display))>>

\* implementation/codegen.rs: the make_assertion closure of generate
make_assertion(m, ctype, display, exec_expr, desc) ==
    LET mac == get_assert_macro(ctype, m)
        log == (m = "LogOnly")
        gate == IF m = "Test" THEN "cfg_attr" ELSE "none"
    IN  IF ~log /\ mac = <<>> THEN <<>>
        ELSE <<Stmt(log, IF mac = <<>> THEN "" ELSE mac[1], gate,
                    exec_expr, format_args(desc, display))>>

(***************************************************************************)
(* Extraction of old() calls.  The extractor's state is [last_id, olds];   *)
(* a visit returns the rewritten expression and the state after it.        *)
(***************************************************************************)
OldExpr(name, expr) == [name |-> name, expr |-> expr]

\* implementation/codegen.rs: get_old_data, an Option as a sequence
get_old_data(call) ==
    IF Len(call[3]) # 1 THEN <<>>
    ELSE IF call[2] = Path("old") THEN <<call[3][1]>>
    ELSE <<>>

old_var_name(id) == "__contract_old_" \o ToString(id)

\* An extractor that numbers an outer old() before the ones in its argument.
RECURSIVE visit_expr_mut_outside_in(_, _)
RECURSIVE visit_exprs_mut_outside_in(_, _)
visit_expr_mut_outside_in(expr, st) ==
    CASE expr[1] = "call" ->
            LET data == get_old_data(expr)
            IN  IF data # <<>>
                THEN LET id == st.last_id
                         arg == visit_expr_mut_outside_in(data[1],
                                    [last_id |-> id + 1, olds |-> st.olds])
                     IN  [expr |-> Path(old_var_name(id)),
                          st |-> [last_id |-> arg.st.last_id,
                                  olds |-> Append(arg.st.olds,
                                               OldExpr(old_var_name(id), arg.expr))]]
                ELSE LET f == visit_expr_mut_outside_in(expr[2], st)
                         args == visit_exprs_mut_outside_in(expr[3], f.st)
                     IN  [expr |-> ExprCall(f.expr, args.exprs), st |-> args.st]
      [] expr[1] = "bin" ->
            LET l == visit_expr_mut_outside_in(expr[3], st)
                r == visit_expr_mut_outside_in(expr[4], l.st)
            IN  [expr |-> Bin(expr[2], l.expr, r.expr), st |-> r.st]
      [] OTHER -> [expr |-> expr, st |-> st]

visit_exprs_mut_outside_in(exprs, st) ==
    IF exprs = <<>> THEN [exprs |-> <<>>, st |-> st]
    ELSE LET h == visit_expr_mut_outside_in(Head(exprs), st)
             t == visit_exprs_mut_outside_in(Tail(exprs), h.st)
         IN  [exprs |-> <<h.expr>> \o t.exprs, st |-> t.st]

\* implementation/codegen.rs: OldExtractor::visit_expr_mut
RECURSIVE visit_expr_mut(_, _)
RECURSIVE visit_exprs_mut(_, _)
visit_expr_mut(expr, st) ==
    CASE expr[1] = "call" ->
            LET data == get_old_data(expr)
            IN  IF data # <<>>
                THEN LET arg == visit_expr_mut(data[1], st)
                         id == arg.st.last_id
                     IN  [expr |-> Path(old_var_name(id)),
                          st |-> [last_id |-> id + 1,
                                  olds |-> Append(arg.st.olds,
                                               OldExpr(old_var_name(id), arg.expr))]]
                ELSE LET f == visit_expr_mut(expr[2], st)
                         args == visit_exprs_mut(expr[3], f.st)
                     IN  [expr |-> ExprCall(f.expr, args.exprs), st |-> args.st]
      [] expr[1] = "bin" ->
            LET l == visit_expr_mut(expr[3], st)
                r == visit_expr_mut(expr[4], l.st)
            IN  [expr |-> Bin(expr[2], l.expr, r.expr), st |-> r.st]
      [] OTHER -> [expr |-> expr, st |-> st]

\* syn: the visit of a sequence of expressions, first to last
visit_exprs_mut(exprs, st) ==
    IF exprs = <<>> THEN [exprs |-> <<>>, st |-> st]
    ELSE LET h == visit_expr_mut(Head(exprs), st)
             t == visit_exprs_mut(Tail(exprs), h.st)
         IN  [exprs |-> <<h.expr>> \o t.exprs, st |-> t.st]

\* An extraction that leaves the old() calls where they are.
extract_old_calls_none(contracts) ==
    [contracts |-> contracts, olds |-> <<>>]

\* An extraction that also rewrites the assertions of the invariants.
extract_old_calls_with_invariants(contracts) ==
    LET RECURSIVE from(_, _)
        from(cs, st) ==
            IF cs = <<>> THEN [contracts |-> <<>>, st |-> st]
            ELSE LET c == Head(cs)
                     v == IF c.ty = "Pre"
                          THEN [exprs |-> c.assertions, st |-> st]
                          ELSE visit_exprs_mut(c.assertions, st)
                     rest == from(Tail(cs), v.st)
                 IN  [contracts |-> <<[c EXCEPT !.assertions = v.exprs]>>
                                        \o rest.contracts,
                      st |-> rest.st]
        r == from(contracts, [last_id |-> 0, olds |-> <<>>])
    IN  [contracts |-> r.contracts, olds |-> r.st.olds]

\* implementation/codegen.rs: extract_old_calls
RECURSIVE extract_from(_, _)
extract_from(contracts, st) ==
    IF contracts = <<>> THEN [contracts |-> <<>>, st |-> st]
    ELSE LET c == Head(contracts)
             v == IF c.ty # "Post"
                  THEN [exprs |-> c.assertions, st |-> st]
                  ELSE visit_exprs_mut(c.assertions, st)
             rest == extract_from(Tail(contracts), v.st)
         IN  [contracts |-> <<[c EXCEPT !.assertions = v.exprs]>> \o rest.contracts,
              st |-> rest.st]

\* An extraction whose counter goes on from the bindings of the methods
\* expanded before.
extract_old_calls_shared_counter(contracts) ==
    LET Before(u) ==
            Flatten([i \in 1..Len(u.items) |->
                IF u.items[i].code = <<>> \/ u.items[i].code[1].layers = <<>>
                THEN <<>> ELSE u.items[i].code[1].layers[1].olds])
        r == extract_from(contracts,
                 [last_id |-> Len(Before(trait_)) + Len(Before(impl_)),
                  olds |-> <<>>])
    IN  [contracts |-> r.contracts, olds |-> r.st.olds]

extract_old_calls(contracts) ==
    LET r == extract_from(contracts, [last_id |-> 0, olds |-> <<>>])
    IN  [contracts |-> r.contracts, olds |-> r.st.olds]

(***************************************************************************)
(* Function bodies: a block is a sequence of statements                    *)
(*   <<"assign", var, expr>>   var = expr;                                 *)
(*   <<"if", cond, block>>     if cond { block }                           *)
(*   <<"return", expr>>        return expr;                                *)
(*   <<"break", expr>>         break 'run expr;                            *)
(*   <<"tail", expr>>          the block's final expression                *)
(*   <<"closure", var, param, block, expr>>                                *)
(*                             let var = (|param| block)(expr);            *)
(***************************************************************************)
\* A replacer that leaves the returns inside nested blocks alone.
ReturnReplacerShallow(block) ==
    [i \in 1..Len(block) |->
        IF block[i][1] = "return" THEN <<"break", block[i][2]>> ELSE block[i]]

\* implementation/codegen.rs: ReturnReplacer, applied by visit_block_mut
RECURSIVE ReturnReplacer(_)
ReturnReplacer(block) ==
    [i \in 1..Len(block) |->
        CASE block[i][1] = "return" -> <<"break", block[i][2]>>
          [] block[i][1] = "if" -> <<"if", block[i][2], ReturnReplacer(block[i][3])>>
          [] block[i][1] = "closure" ->
                <<"closure", block[i][2], block[i][3],
                  ReturnReplacer(block[i][4]), block[i][5]>>
          [] OTHER -> block[i]]

(***************************************************************************)
(* The function under expansion:                                           *)
(*   [state, name, attrs, contracts, layers, body]                         *)
(* state is "source" (nothing expanded yet), "expanded" or "panic" (the    *)
(* macro panicked, which fails the compilation).  Every expansion wraps    *)
(* the body in one more layer [pre, olds, post, wrap]; layers[1] is the    *)
(* outermost.  wrap tells how the layer holds what it wraps:               *)
(*   "block"    let ret: T = { .. };                                       *)
(*   "closure"  let mut run = || -> T { .. }; let ret = run();             *)
(*   "label"    let ret: T = 'run: { .. };                                 *)
(***************************************************************************)
Layer(pre, olds, post, wrap) ==
    [pre |-> pre, olds |-> olds, post |-> post, wrap |-> wrap]

Source(name, attrs, body) ==
    [state |-> "source", name |-> name, attrs |-> attrs,
     contracts |-> <<>>, layers |-> <<>>, body |-> body]

Panicked(o) == [o EXCEPT !.state = "panic"]

\* A wrapper that runs the post-checks before the body.
impl_fn_checks_post_first(o, pre, post) ==
    [o EXCEPT !.state = "expanded",
              !.layers = <<Layer(pre \o post, <<>>, <<>>, "block")>> \o @]

\* lib.rs: impl_fn_checks
impl_fn_checks(o, pre, post) ==
    [o EXCEPT !.state = "expanded",
              !.layers = <<Layer(pre, <<>>, post, "block")>> \o @]

\* lib.rs: impl_pre
impl_pre(m, ts, o) ==
    LET p == parse_attributes(ts)
        desc == IF p.desc # <<>>
                THEN "Pre-condition of " \o o.name \o " violated - "
                        \o fmt_debug(p.desc[1])
                ELSE "Pre-condition of " \o o.name \o " violated"
    IN  IF p.state = "panic" THEN Panicked(o)
        ELSE impl_fn_checks(o, attributes_to_asserts(m, p.exprs, desc), <<>>)

\* lib.rs: impl_post
impl_post(m, ts, o) ==
    LET p == parse_attributes(ts)
        desc == IF p.desc # <<>>
                THEN "Post-condition of " \o o.name \o " violated - "
                        \o fmt_debug(p.desc[1])
                ELSE "Post-condition of " \o o.name \o " violated"
    IN  IF p.state = "panic" THEN Panicked(o)
        ELSE impl_fn_checks(o, <<>>, attributes_to_asserts(m, p.exprs, desc))

\* lib.rs: impl_invariant_fn
impl_invariant_fn(m, ts, o) ==
    LET p == parse_attributes(ts)
        desc == IF p.desc # <<>>
                THEN "Invariant of " \o o.name \o " violated - "
                        \o fmt_debug(p.desc[1])
                ELSE "Invariant of " \o o.name \o " violated"
        pre == attributes_to_asserts(m, p.exprs, desc)
    IN  IF p.state = "panic" THEN Panicked(o)
        ELSE impl_fn_checks(o, pre, pre)

\* lib.rs: impl_invariant, for an item that is a function.  The name of the
\* attribute is computed first, and unwrap() panics when the mode has none.
impl_invariant(m, ts, o) ==
    IF lib_name(m) = <<>> THEN Panicked(o)
    ELSE impl_invariant_fn(m, ts, o)

\* lib.rs: the exported attribute macros pre, debug_pre, .., each resolving
\* the mode it declares and handing over to the kind's implementation
lib_attribute(a, o) ==
    LET e == lib_exported(a.name)
        m == lib_final_mode(e.mode)
    IN  CASE e.ty = "Pre" -> impl_pre(m, a.args, o)
          [] e.ty = "Post" -> impl_post(m, a.args, o)
          [] e.ty = "Invariant" -> impl_invariant(m, a.args, o)

\* A model builder that drops the contracts after the triggering one.
new_with_initial_contract_only(attrs, cty, cmode, ctoks) ==
    LET initial == from_toks(cty, cmode, ctoks)
        IsOther(a) == ~contract_type_and_mode(a.name).some
    IN  [ok |-> initial.ok, contracts |-> <<initial>>,
         attrs |-> SelectSeq(attrs, IsOther)]

\* implementation/mod.rs: FuncWithContracts::new_with_initial_contract;
\* attrs are the attributes still on the function
new_with_initial_contract(attrs, cty, cmode, ctoks) ==
    LET initial == from_toks(cty, cmode, ctoks)
        IsContract(a) == contract_type_and_mode(a.name).some
        IsOther(a) == ~contract_type_and_mode(a.name).some
        found == SelectSeq(attrs, IsContract)
        others == [i \in 1..Len(found) |->
                      from_toks(contract_type_and_mode(found[i].name).ty,
                                contract_type_and_mode(found[i].name).mode,
                                found[i].args)]
        contracts == <<initial>> \o others
    IN  [ok |-> \A i \in 1..Len(contracts) : contracts[i].ok,
         contracts |-> contracts,
         attrs |-> SelectSeq(attrs, IsOther)]

\* implementation/pre.rs: pre.  It expands its own attribute only and
\* leaves the other attributes on the function.  attributes_to_asserts and
\* generate_fn_checks are the ones of lib.rs (generate_fn_checks is
\* impl_fn_checks there).
implementation_pre(m, attr, item) ==
    LET p == parse_attributes(attr)
        desc == IF p.desc # <<>>
                THEN "Pre-condition of " \o item.name \o " violated - "
                        \o fmt_debug(p.desc[1])
                ELSE "Pre-condition of " \o item.name \o " violated"
        pre == attributes_to_asserts(m, p.exprs, desc)
        post == <<>>
    IN  IF p.state = "panic" THEN Panicked(item)
        ELSE impl_fn_checks(item, pre, post)

\* implementation/mod.rs: FuncWithContracts::generate
mod_generate(o, contracts) ==
    LET desc(c) == IF c.desc # <<>>
                   THEN message_name(c.ty) \o " of " \o o.name
                            \o " violated: " \o c.desc[1]
                   ELSE message_name(c.ty) \o " of " \o o.name \o " violated"
        checks(c) == Flatten([i \in 1..Len(c.assertions) |->
                        mod_make_assertion(final_mode(c.mode), c.assertions[i], desc(c))])
        pres == SelectSeq(contracts, IsPreKind)
        posts == SelectSeq(contracts, IsPostKind)
        pre == Flatten([k \in 1..Len(pres) |-> checks(pres[k])])
        post == Flatten([k \in 1..Len(posts) |-> checks(posts[k])])
    IN  [o EXCEPT !.state = "expanded", !.contracts = @ \o contracts,
                  !.layers = <<Layer(pre, <<>>, post, "closure")>> \o @]

\* implementation/doc.rs: generate_attributes, the #[doc = ..] attributes
\* that describe the contracts.  The literal of a generated attribute is
\* built from its value (LitStr::new) and is kept as <<"lit", value>>; a
\* backquote of the value is written as an apostrophe.  print_expr gives
\* the token text of the assertion.
generate_attributes(contracts) ==
    LET make_attribute(content) == Attr("doc", << <<"lit", content>> >>, FALSE)
        print_expr(expr) == stringify(expr)
        mode_name(c) == CASE c.mode = "Debug" -> <<"debug">>
                     [] c.mode = "Test" -> <<"test">>
                     [] OTHER -> <<>>
        prefix(c) == IF mode_name(c) # <<>>
                     THEN message_name(c.ty) \o " - " \o mode_name(c)[1] \o ": "
                     ELSE message_name(c.ty) \o ": "
        document(c) ==
            IF c.desc # <<>>
            THEN <<make_attribute(prefix(c) \o c.desc[1])>>
                 \o [i \in 1..Len(c.assertions) |->
                        make_attribute(" - '" \o print_expr(c.assertions[i]) \o "'")]
                 \o <<make_attribute("")>>
            ELSE Flatten([i \in 1..Len(c.assertions) |->
                    <<make_attribute(prefix(c) \o "'"
                                        \o print_expr(c.assertions[i]) \o "'"),
                      make_attribute("")>>])
    IN  <<make_attribute("# Contracts")>>
        \o Flatten([k \in 1..Len(contracts) |-> document(contracts[k])])

\* A synthesis that emits a contract's assertions last to first.
generate_reversed(o, contracts, docs, olds) ==
    LET desc(c) == message_name(c.ty) \o " of " \o o.name \o " violated"
        checks(c, as) ==
            Flatten([i \in 1..Len(c.assertions) |->
                LET j == Len(c.assertions) + 1 - i
                IN  make_assertion(final_mode(c.mode), as, c.streams[j],
                                   c.assertions[j], desc(c))])
        pres == SelectSeq(contracts, IsPreKind)
        posts == SelectSeq(contracts, IsPostKind)
        pre == Flatten([k \in 1..Len(pres) |-> checks(pres[k], "Pre")])
        post == Flatten([k \in 1..Len(posts) |-> checks(posts[k], "Post")])
    IN  [o EXCEPT !.state = "expanded", !.contracts = contracts,
                  !.attrs = @ \o docs,
                  !.body = ReturnReplacer(@),
                  !.layers = <<Layer(pre, olds, post, "label")>> \o @]

\* A synthesis that expands an invariant in the pre position only.
generate_invariant_pre_only(o, contracts, docs, olds) ==
    LET desc(c) == message_name(c.ty) \o " of " \o o.name \o " violated"
        checks(c, as) ==
            Flatten([i \in 1..Len(c.assertions) |->
                make_assertion(final_mode(c.mode), as, c.streams[i],
                               c.assertions[i], desc(c))])
        IsPost(c) == c.ty = "Post"
        pres == SelectSeq(contracts, IsPreKind)
        posts == SelectSeq(contracts, IsPost)
        pre == Flatten([k \in 1..Len(pres) |-> checks(pres[k], "Pre")])
        post == Flatten([k \in 1..Len(posts) |-> checks(posts[k], "Post")])
    IN  [o EXCEPT !.state = "expanded", !.contracts = contracts,
                  !.attrs = @ \o docs,
                  !.body = ReturnReplacer(@),
                  !.layers = <<Layer(pre, olds, post, "label")>> \o @]

\* implementation/codegen.rs: generate
generate(o, contracts, docs, olds) ==
    LET contract_type_name(c, as) ==
            IF c.ty = "Invariant"
            THEN message_name(c.ty) \o
                    (IF as = "Pre" THEN " (as pre-condition)"
                                   ELSE " (as post-condition)")
            ELSE message_name(c.ty)
        desc(c, as) ==
            IF c.desc # <<>>
            THEN contract_type_name(c, as) \o " of " \o o.name
                    \o " violated: " \o c.desc[1]
            ELSE contract_type_name(c, as) \o " of " \o o.name \o " violated"
        \* assertions.iter().zip(streams.iter()) stops at the shorter one
        n(c) == IF Len(c.assertions) <= Len(c.streams)
                THEN Len(c.assertions) ELSE Len(c.streams)
        checks(c, as) ==
            Flatten([i \in 1..n(c) |->
                make_assertion(final_mode(c.mode), as, c.streams[i],
                               c.assertions[i], desc(c, as))])
        pres == SelectSeq(contracts, IsPreKind)
        posts == SelectSeq(contracts, IsPostKind)
        pre == Flatten([k \in 1..Len(pres) |-> checks(pres[k], "Pre")])
        post == Flatten([k \in 1..Len(posts) |-> checks(posts[k], "Post")])
    IN  [o EXCEPT !.state = "expanded", !.contracts = contracts,
                  !.attrs = @ \o docs,
                  !.body = ReturnReplacer(@),
                  !.layers = <<Layer(pre, olds, post, "label")>> \o @]

(***************************************************************************)
(* Execution of the expanded function.                                     *)
(***************************************************************************)
\* The value of an expression in an environment.
RECURSIVE EvalExpr(_, _)
EvalExpr(e, en) ==
    CASE e[1] = "path" -> en[e[2]]
      [] e[1] = "int" -> e[2]
      [] e[1] = "tuple" -> [i \in 1..Len(e[2]) |-> EvalExpr(e[2][i], en)]
      [] e[1] = "bin" ->
            LET l == EvalExpr(e[3], en)
                r == EvalExpr(e[4], en)
            IN  CASE e[2] = "<=" -> l <= r
                  [] e[2] = ">=" -> l >= r
                  [] e[2] = "==" -> l = r
                  [] e[2] = "+" -> l + r
                  [] e[2] = "-" -> l - r

\* The outcome of a block: how it ended, with which value, in which state.
RECURSIVE ExecBlock(_, _)
ExecBlock(b, en) ==
    IF b = <<>> THEN [kind |-> "unit", val |-> 0, env |-> en]
    ELSE LET s == Head(b)
         IN  CASE s[1] = "assign" ->
                    ExecBlock(Tail(b), [en EXCEPT ![s[2]] = EvalExpr(s[3], en)])
               [] s[1] = "if" ->
                    IF EvalExpr(s[2], en)
                    THEN LET r == ExecBlock(s[3], en)
                         IN  IF r.kind \in {"return", "break"} THEN r
                             ELSE ExecBlock(Tail(b), r.env)
                    ELSE ExecBlock(Tail(b), en)
               [] s[1] = "closure" ->
                    \* a return leaves the closure with its value
                    LET r == ExecBlock(s[4], (s[3] :> EvalExpr(s[5], en)) @@ en)
                    IN  IF r.kind = "break" THEN r
                        ELSE ExecBlock(Tail(b), (s[2] :> r.val) @@ en)
               [] s[1] = "return" ->
                    [kind |-> "return", val |-> EvalExpr(s[2], en), env |-> en]
               [] s[1] = "break" ->
                    [kind |-> "break", val |-> EvalExpr(s[2], en), env |-> en]
               [] s[1] = "tail" ->
                    [kind |-> "value", val |-> EvalExpr(s[2], en), env |-> en]

\* rustc: a condition compiles when it is a comparison whose names are in
\* scope.  The program defines no function, so no call resolves.
RECURSIVE Resolves(_, _)
Resolves(e, scope) ==
    CASE e[1] = "path" -> e[2] \in scope
      [] e[1] = "int" -> TRUE
      [] e[1] = "str" -> TRUE
      [] e[1] = "bin" -> Resolves(e[3], scope) /\ Resolves(e[4], scope)
      [] e[1] = "call" -> FALSE

IsCondition(e, scope) ==
    e[1] = "bin" /\ e[2] \in {"<=", ">=", "=="} /\ Resolves(e, scope)

Binders(olds) == {olds[i].name : i \in 1..Len(olds)}

\* rustc: a statement under #[cfg(test)] is removed before names are
\* resolved unless the build is a test build.
Stripped(st) == st.gate = "cfg_attr" /\ ~build.test

\* rustc on the expanded function.  A break with a label is valid inside
\* the labeled block only, and the body of a closure is outside every block
\* around the closure (E0767); the conditions and the bindings must
\* resolve.
Compiles(o) ==
  LET RECURSIVE Breaks(_)
      Breaks(block) ==
          \E i \in 1..Len(block) :
              \/ block[i][1] = "break"
              \/ block[i][1] = "if" /\ Breaks(block[i][3])
              \/ block[i][1] = "closure" /\ Breaks(block[i][4])
      RECURSIVE ClosuresValid(_)
      ClosuresValid(block) ==
          \A i \in 1..Len(block) :
              /\ block[i][1] = "if" => ClosuresValid(block[i][3])
              /\ block[i][1] = "closure" => ~Breaks(block[i][4])
  IN
  /\ ClosuresValid(o.body)
  /\ \A k \in 1..Len(o.layers) :
        LET l == o.layers[k]
        IN  /\ \A i \in 1..Len(l.pre) :
                  Stripped(l.pre[i]) \/ IsCondition(l.pre[i].exec, {"x"})
            /\ \A i \in 1..Len(l.olds) :
                  Resolves(l.olds[i].expr,
                           {"x"} \cup {l.olds[j].name : j \in 1..(i - 1)})
            /\ \A i \in 1..Len(l.post) :
                  \/ Stripped(l.post[i])
                  \/ IsCondition(l.post[i].exec,
                                 {"x", "ret"} \cup Binders(l.olds))

(***************************************************************************)
(* The expanded body as the sequence of its instructions: the pre-checks   *)
(* and bindings of the layers from the outermost in, the original body,    *)
(* the post-checks from the innermost out, and the final `ret`.            *)
(***************************************************************************)
Instr(op, phase, layer, arg) ==
    [op |-> op, phase |-> phase, layer |-> layer, arg |-> arg]

RECURSIVE Prologue(_, _)
Prologue(layers, k) ==
    IF k > Len(layers) THEN <<>>
    ELSE [i \in 1..Len(layers[k].pre) |->
              Instr("check", "pre", k, layers[k].pre[i])]
         \o [i \in 1..Len(layers[k].olds) |->
              Instr("let", "old", k, layers[k].olds[i])]
         \o Prologue(layers, k + 1)

RECURSIVE Epilogue(_, _)
Epilogue(layers, k) ==
    IF k < 1 THEN <<>>
    ELSE [i \in 1..Len(layers[k].post) |->
              Instr("check", "post", k, layers[k].post[i])]
         \o Epilogue(layers, k - 1)

\* A new block that binds the old() values before the pre-checks.
ProgramBindFirst(o) ==
    IF Len(o.layers) # 1
    THEN Prologue(o.layers, 1)
         \o <<Instr("body", "body", Len(o.layers), <<>>)>>
         \o Epilogue(o.layers, Len(o.layers))
         \o <<Instr("yield", "yield", 0, <<>>)>>
    ELSE [i \in 1..Len(o.layers[1].olds) |->
              Instr("let", "old", 1, o.layers[1].olds[i])]
         \o [i \in 1..Len(o.layers[1].pre) |->
              Instr("check", "pre", 1, o.layers[1].pre[i])]
         \o <<Instr("body", "body", 1, <<>>)>>
         \o Epilogue(o.layers, 1)
         \o <<Instr("yield", "yield", 0, <<>>)>>

\* A new block that binds the old() values after the body.
ProgramBindLate(o) ==
    IF Len(o.layers) # 1
    THEN Prologue(o.layers, 1)
         \o <<Instr("body", "body", Len(o.layers), <<>>)>>
         \o Epilogue(o.layers, Len(o.layers))
         \o <<Instr("yield", "yield", 0, <<>>)>>
    ELSE [i \in 1..Len(o.layers[1].pre) |->
              Instr("check", "pre", 1, o.layers[1].pre[i])]
         \o <<Instr("body", "body", 1, <<>>)>>
         \o [i \in 1..Len(o.layers[1].olds) |->
              Instr("let", "old", 1, o.layers[1].olds[i])]
         \o Epilogue(o.layers, 1)
         \o <<Instr("yield", "yield", 0, <<>>)>>

Program(o) ==
    Prologue(o.layers, 1)
    \o <<Instr("body", "body", Len(o.layers), <<>>)>>
    \o Epilogue(o.layers, Len(o.layers))
    \o <<Instr("yield", "yield", 0, <<>>)>>

\* std and mirai_annotations: precondition! and postcondition! only inform
\* the static analyser; every other macro, and the logging block, tests its
\* condition in the builds that keep it.
IsCheck(st) == st.log \/ st.macro \notin {"", "precondition", "postcondition"}

\* std and mirai_annotations: which macros test their condition when run
Aborting(macro) ==
    \/ macro \in {"assert", "checked_precondition", "checked_postcondition"}
    \/ /\ macro \in {"debug_assert", "debug_checked_precondition",
                     "debug_checked_postcondition"}
       /\ build.debug_assertions

\* Where the body's way out lands.  A value goes to the innermost layer; a
\* `return` leaves the blocks around it up to the innermost closure that
\* holds it, and a `break 'run` up to the labelled block, passing over the
\* post-checks of the layers it leaves.  The result is the number of
\* post-checks passed over, or -1 when the way out leaves the function.
Landing(layers, kind) ==
    LET n == Len(layers)
        holder == IF kind = "return" THEN "closure" ELSE "label"
        Holds == {k \in 1..n : layers[k].wrap = holder}
        Max(S) == CHOOSE k \in S : \A j \in S : j <= k
        RECURSIVE Passed(_)
        Passed(j) == IF j > n THEN 0 ELSE Len(layers[j].post) + Passed(j + 1)
    IN  IF kind \in {"value", "unit"} THEN 0
        ELSE IF Holds = {} THEN -1
        ELSE Passed(Max(Holds) + 1)

\* A call of an expanded function that runs to its end: the statements of
\* the new block in order, as one step.
Invoke(o, en) ==
    LET prog == Program(o)
        RECURSIVE Run(_, _, _)
        Run(i, e, lg) ==
            LET in == prog[i]
                st == in.arg
            IN  CASE in.op = "check" ->
                       LET active == st.gate = "none" \/ build.test
                           evaluates == active /\ (st.log \/ Aborting(st.macro))
                           fails == evaluates /\ ~EvalExpr(st.exec, e)
                           lg2 == IF fails /\ st.log THEN Append(lg, st.msg) ELSE lg
                       IN  IF fails /\ Aborting(st.macro)
                           THEN [kind |-> "panic", val |-> 0, msg |-> st.msg,
                                 logged |-> lg2]
                           ELSE Run(i + 1, e, lg2)
                  [] in.op = "let" ->
                       Run(i + 1, (st.name :> EvalExpr(st.expr, e)) @@ e, lg)
                  [] in.op = "body" ->
                       LET r == ExecBlock(o.body, e)
                           land == Landing(o.layers, r.kind)
                       IN  IF land < 0
                           THEN [kind |-> "value", val |-> r.val, msg |-> "",
                                 logged |-> lg]
                           ELSE Run(i + 1 + land, ("ret" :> r.val) @@ r.env, lg)
                  [] OTHER ->
                       [kind |-> "value", val |-> e["ret"], msg |-> "",
                        logged |-> lg]
    IN  Run(1, en, <<>>)

(***************************************************************************)
(* Trait propagation (implementation/traits.rs).  An item of a trait or of *)
(* an impl block is                                                        *)
(*   [kind, name, attrs, inputs, default, code]                            *)
(* kind:    "method", or "const" for an item that is no method             *)
(* inputs:  the patterns of the parameters, in order                       *)
(*            <<"self">>                  a receiver                       *)
(*            <<"ident", name, mut>>      name, or `mut name`              *)
(*            <<"tuple", patterns>>       (p, q, ..)                       *)
(*            <<"tuplestruct", patterns>> P(p, q, ..)                      *)
(*            <<"wild">>                  _                                *)
(* default: the body as a sequence of at most one block                    *)
(* code:    the method after the expansion of its contract attributes, a   *)
(*          sequence of at most one expanded function                      *)
(***************************************************************************)
Item(kind, name, attrs, inputs, default) ==
    [kind |-> kind, name |-> name, attrs |-> attrs, inputs |-> inputs,
     default |-> default, code |-> <<>>]

\* implementation/traits.rs: contract_method_impl_name
contract_method_impl_name(name) == "__contracts_impl_" \o name

\* The attributes create_method_rename puts on the internal method (the
\* second doc text without its backquotes, which a string here cannot hold).
InternalAttrs ==
    << Attr("doc", <<Path("hidden")>>, FALSE),
       Attr("doc", <<StrLit("\"This is an internal function that is not meant to be used directly!\"")>>, FALSE),
       Attr("doc", <<StrLit("\"See the documentation of the #[contract_trait] attribute.\"")>>, FALSE),
       Attr("inline", <<Path("always")>>, FALSE) >>

\* A renaming that keeps the user's attributes on the internal method.
create_method_rename_keeping_attrs(method) ==
    [method EXCEPT !.attrs = @ \o InternalAttrs,
                   !.name = contract_method_impl_name(@)]

\* implementation/traits.rs: create_method_rename
create_method_rename(method) ==
    [method EXCEPT !.attrs = InternalAttrs,
                   !.name = contract_method_impl_name(@)]

\* The tokens that are no identifier.
Punct == {"(", ")", ",", "{", "}", "::", "mut", "_"}

WithCommas(tokss) == Flatten([i \in 1..Len(tokss) |-> tokss[i] \o <<",">>])

\* implementation/traits.rs: arg_pat_info.  Pat::Ident is quoted whole,
\* its `mut` included; unimplemented!() and panic!() both end the expansion.
RECURSIVE arg_pat_info(_)
arg_pat_info(pat) ==
    CASE pat[1] = "ident" ->
            [state |-> "ok",
             call_toks |-> (IF pat[3] THEN <<"mut">> ELSE <<>>) \o <<pat[2]>>]
      [] pat[1] = "tuple" ->
            LET infos == [i \in 1..Len(pat[2]) |-> arg_pat_info(pat[2][i])]
            IN  IF \E i \in 1..Len(infos) : infos[i].state # "ok"
                THEN [state |-> "panic", call_toks |-> <<>>]
                ELSE [state |-> "ok",
                      call_toks |-> <<"(">>
                          \o WithCommas([i \in 1..Len(infos) |-> infos[i].call_toks])
                          \o <<")">>]
      [] pat[1] = "tuplestruct" -> [state |-> "panic", call_toks |-> <<>>]
      [] OTHER -> [state |-> "panic", call_toks |-> <<>>]

\* syn: the expression that starts at token i, as [ok, expr, next]; and the
\* comma-separated expressions up to the closing parenthesis, as
\* [ok, elems, paren, next], paren telling a single expression without a
\* comma.
RECURSIVE parse_expr(_, _)
RECURSIVE parse_elems(_, _, _)
parse_expr(tks, i) ==
    IF i > Len(tks) THEN [ok |-> FALSE, expr |-> <<>>, next |-> i]
    ELSE IF tks[i] = "("
         THEN LET r == parse_elems(tks, i + 1, <<>>)
              IN  [ok |-> r.ok,
                   expr |-> IF r.ok /\ r.paren THEN r.elems[1]
                            ELSE <<"tuple", r.elems>>,
                   next |-> r.next]
    ELSE IF tks[i] \in Punct THEN [ok |-> FALSE, expr |-> <<>>, next |-> i]
    ELSE [ok |-> TRUE, expr |-> Path(tks[i]), next |-> i + 1]

parse_elems(tks, i, acc) ==
    IF i > Len(tks)
    THEN [ok |-> FALSE, elems |-> acc, paren |-> FALSE, next |-> i]
    ELSE IF tks[i] = ")"
         THEN [ok |-> TRUE, elems |-> acc, paren |-> FALSE, next |-> i + 1]
    ELSE LET e == parse_expr(tks, i)
         IN  IF ~e.ok \/ e.next > Len(tks)
             THEN [ok |-> FALSE, elems |-> acc, paren |-> FALSE, next |-> i]
             ELSE IF tks[e.next] = ","
                  THEN parse_elems(tks, e.next + 1, Append(acc, e.expr))
             ELSE IF tks[e.next] = ")"
                  THEN [ok |-> TRUE, elems |-> Append(acc, e.expr),
                        paren |-> (acc = <<>>), next |-> e.next + 1]
             ELSE [ok |-> FALSE, elems |-> acc, paren |-> FALSE, next |-> i]

\* syn::parse2::<Block> of `{ Self::name(arguments) }`: the block with the
\* one statement <<"forward", name, arguments>>, when the tokens are one.
parse2_block(tks) ==
    IF Len(tks) < 7 \/ SubSeq(tks, 1, 3) # <<"{", "Self", "::">>
          \/ tks[4] \in Punct \/ tks[5] # "("
    THEN [ok |-> FALSE, block |-> <<>>]
    ELSE LET r == parse_elems(tks, 6, <<>>)
         IN  IF r.ok /\ r.next = Len(tks) /\ tks[r.next] = "}"
             THEN [ok |-> TRUE, block |-> << <<"forward", tks[4], r.elems>> >>]
             ELSE [ok |-> FALSE, block |-> <<>>]

\* A wrapper that forwards to the method's own name.
create_method_wrapper_to_itself(method) ==
    LET infos == [i \in 1..Len(method.inputs) |->
                    IF method.inputs[i][1] = "self"
                    THEN [state |-> "ok", call_toks |-> <<"self">>]
                    ELSE arg_pat_info(method.inputs[i])]
        arguments == WithCommas([i \in 1..Len(infos) |-> infos[i].call_toks])
        body == <<"{", "Self", "::", method.name, "(">>
                    \o arguments \o <<")", "}">>
        block == parse2_block(body)
    IN  IF (\E i \in 1..Len(infos) : infos[i].state # "ok") \/ ~block.ok
        THEN [state |-> "panic", method |-> method]
        ELSE [state |-> "ok",
              method |-> [method EXCEPT !.default = <<block.block>>]]

\* implementation/traits.rs: create_method_wrapper
create_method_wrapper(method) ==
    LET infos == [i \in 1..Len(method.inputs) |->
                    IF method.inputs[i][1] = "self"
                    THEN [state |-> "ok", call_toks |-> <<"self">>]
                    ELSE arg_pat_info(method.inputs[i])]
        arguments == WithCommas([i \in 1..Len(infos) |-> infos[i].call_toks])
        body == <<"{", "Self", "::", contract_method_impl_name(method.name), "(">>
                    \o arguments \o <<")", "}">>
        block == parse2_block(body)
    IN  IF (\E i \in 1..Len(infos) : infos[i].state # "ok") \/ ~block.ok
        THEN [state |-> "panic", method |-> method]
        ELSE [state |-> "ok",
              method |-> [method EXCEPT !.default = <<block.block>>]]

IsMethod(item) == item.kind = "method"

\* implementation/traits.rs: contract_trait_item_trait
contract_trait_item_trait(t) ==
    LET methods == SelectSeq(t.items, IsMethod)
        IsNoMethod(item) == ~IsMethod(item)
        wrappers == [i \in 1..Len(methods) |-> create_method_wrapper(methods[i])]
        funcs == Flatten([i \in 1..Len(methods) |->
                            <<create_method_rename(methods[i]),
                              wrappers[i].method>>])
    IN  IF \E i \in 1..Len(wrappers) : wrappers[i].state # "ok"
        THEN [t EXCEPT !.state = "panic"]
        ELSE [t EXCEPT !.state = "expanded",
                       !.items = SelectSeq(t.items, IsNoMethod) \o funcs]

\* An impl transformation that hides the renamed methods.
contract_trait_item_impl_hiding(b) ==
    [b EXCEPT !.state = "expanded",
              !.items = [i \in 1..Len(b.items) |->
                            IF IsMethod(b.items[i])
                            THEN [b.items[i] EXCEPT
                                    !.name = contract_method_impl_name(@),
                                    !.attrs = <<Attr("doc", <<Path("hidden")>>, FALSE)>> \o @]
                            ELSE b.items[i]]]

\* implementation/traits.rs: contract_trait_item_impl
contract_trait_item_impl(b) ==
    [b EXCEPT !.state = "expanded",
              !.items = [i \in 1..Len(b.items) |->
                            IF IsMethod(b.items[i])
                            THEN [b.items[i] EXCEPT
                                    !.name = contract_method_impl_name(@)]
                            ELSE b.items[i]]]

\* Rust: the names a pattern binds to the parts of the value it matches.
RECURSIVE bind(_, _)
RECURSIVE bind_all(_, _, _)
bind(pat, v) ==
    CASE pat[1] = "self" -> ("self" :> v)
      [] pat[1] = "ident" -> (pat[2] :> v)
      [] pat[1] \in {"tuple", "tuplestruct"} -> bind_all(pat[2], v, 1)
      [] OTHER -> <<>>

bind_all(pats, vs, i) ==
    IF i > Len(pats) THEN <<>>
    ELSE bind_all(pats, vs, i + 1) @@ bind(pats[i], vs[i])

\* The methods of a trait or impl block with the given name.
Named(u, name) ==
    LET Is(item) == IsMethod(item) /\ item.name = name
    IN  SelectSeq(u.items, Is)

\* Rust: a method called on the implementing type is the one of the impl
\* block when the block defines it and the default of the trait otherwise.
Dispatch(t, b, name) ==
    IF Named(b, name) # <<>>
    THEN [unit |-> "impl", method |-> Named(b, name)[1]]
    ELSE [unit |-> "trait", method |-> Named(t, name)[1]]

IsForward(body) == body # <<>> /\ body[1][1] = "forward"

(***************************************************************************)
(* The inputs of the model.                                                *)
(***************************************************************************)
\* Sequences over S of length lo..hi.
SeqsOf(S, lo, hi) == UNION {[1..n -> S] : n \in lo..hi}

XLe1 == Bin("<=", Path("x"), IntLit(1))
XLe2 == Bin("<=", Path("x"), IntLit(2))
XGe1 == Bin(">=", Path("x"), IntLit(1))
XGe0 == Bin(">=", Path("x"), IntLit(0))
RetGe1 == Bin(">=", Path("ret"), IntLit(1))
RetLe3 == Bin("<=", Path("ret"), IntLit(3))
RetOld == Bin("==", Path("ret"), Bin("+", OldCall(Path("x")), IntLit(1)))
XGeOld == Bin(">=", Path("x"), OldCall(Path("x")))
\* g(old(old(x)), old(old(x), 1)) >= 0: an old() inside an old(), and a
\* two-argument old(), which is no old-value marker, around one.
GOld ==
    Bin(">=",
        ExprCall(Path("g"),
                 <<OldCall(OldCall(Path("x"))),
                   ExprCall(Path("old"), <<OldCall(Path("x")), IntLit(1)>>)>>),
        IntLit(0))
Desc1 == StrLit("\"in range\"")
Desc2 == StrLit("\"a \\\"b\\\"\"")

\* The items an argument list is made of: a condition, a non-string
\* literal and two string literals.
ArgLists ==
    [items : SeqsOf({XLe1, IntLit(7), Desc1, Desc2}, 0, MaxItems),
     trailing : BOOLEAN]

\* The attributes a function of the expansion runs is annotated with.
AttrCatalog ==
    { Attr("pre", <<XLe1>>, FALSE),
      Attr("pre", <<XLe2, XGe0, Desc1>>, FALSE),
      Attr("debug_pre", <<XGe0, Desc2>>, TRUE),
      Attr("test_pre", <<XLe2>>, FALSE),
      Attr("post", <<RetOld>>, FALSE),
      Attr("post", <<RetGe1, XGeOld, Desc1>>, FALSE),
      Attr("debug_post", <<RetLe3>>, TRUE),
      Attr("test_post", <<RetOld, Desc2>>, FALSE),
      Attr("invariant", <<XLe2>>, FALSE),
      Attr("invariant", <<XGe0, XLe2, Desc1>>, FALSE),
      Attr("debug_invariant", <<XLe2, Desc2>>, FALSE),
      Attr("test_invariant", <<XGe0>>, TRUE),
      Attr("pre", <<XGeOld>>, FALSE),
      Attr("invariant", <<XGeOld, Desc2>>, FALSE),
      Attr("post", <<GOld>>, FALSE),
      \* ret >= old(x - old(x))
      Attr("post", <<Bin(">=", Path("ret"),
                         OldCall(Bin("-", Path("x"), OldCall(Path("x")))))>>,
           FALSE) }

\* fn f(x: &mut i32) -> i32 { x += 1; x }
BodyInc ==
    << <<"assign", "x", Bin("+", Path("x"), IntLit(1))>>,
       <<"tail", Path("x")>> >>

\* .. { if x >= 1 { return 0; } x += 1; x }
BodyEarly ==
    << <<"if", XGe1, << <<"return", IntLit(0)>> >> >>,
       <<"assign", "x", Bin("+", Path("x"), IntLit(1))>>,
       <<"tail", Path("x")>> >>

\* .. { if x >= 1 { if x >= 2 { x = 0; return 0; } x += 2; } x += 1; x }
BodyNested ==
    << <<"if", XGe1,
            << <<"if", Bin(">=", Path("x"), IntLit(2)),
                    << <<"assign", "x", IntLit(0)>>,
                       <<"return", IntLit(0)>> >> >>,
               <<"assign", "x", Bin("+", Path("x"), IntLit(2))>> >> >>,
       <<"assign", "x", Bin("+", Path("x"), IntLit(1))>>,
       <<"tail", Path("x")>> >>

\* .. { let y = (|v| { if v >= 1 { return 1; } v + 2 })(x); x = y; x }
BodyClosure ==
    << <<"closure", "y", "v",
            << <<"if", Bin(">=", Path("v"), IntLit(1)),
                    << <<"return", IntLit(1)>> >> >>,
               <<"tail", Bin("+", Path("v"), IntLit(2))>> >>,
            Path("x")>>,
       <<"assign", "x", Path("y")>>,
       <<"tail", Path("x")>> >>

Bodies == {BodyInc, BodyEarly, BodyNested, BodyClosure}

\* The attributes of the function of the call runs: any of these, in this
\* order.
RunAttrs ==
    << Attr("pre", <<XLe1>>, FALSE),
       Attr("post", <<RetOld>>, FALSE),
       Attr("post", <<RetGe1, Desc1>>, FALSE),
       Attr("invariant", <<XLe2>>, FALSE),
       Attr("test_post", <<RetLe3>>, FALSE),
       Attr("post", <<XGeOld, Desc2>>, TRUE) >>

Pick(seq, sel) ==
    LET In(i) == i \in sel
        idx == SelectSeq([i \in 1..Len(seq) |-> i], In)
    IN  [k \in 1..Len(idx) |-> seq[idx[k]]]

Builds == [test : BOOLEAN, debug_assertions : BOOLEAN]
Pipelines == {"lib", "mod", "codegen"}

(***************************************************************************)
(* The machines.  Each specification starts the machines it does not use   *)
(* in their idle state and never moves them.                               *)
(***************************************************************************)
NoUnit == [marked |-> FALSE, attrs |-> <<>>, state |-> "source", items |-> <<>>]
NoCallee == [unit |-> "none", name |-> "", env |-> <<>>]

\* The machines named in S are idle.
Idle(S) ==
    /\ IF "mode" \in S
       THEN declared = "Always" /\ mode = "Always" /\ stage = "off"
       ELSE TRUE
    /\ IF "parse" \in S
       THEN /\ toks = [items |-> <<>>, trailing |-> FALSE]
            /\ parsed = [state |-> "none", exprs |-> <<>>, desc |-> NoDesc]
       ELSE TRUE
    /\ IF "gen" \in S
       THEN func = Source("f", <<>>, <<>>) /\ out = func /\ pipeline = "lib"
       ELSE TRUE
    /\ IF "run" \in S
       THEN /\ pc = "off" /\ ip = 0 /\ x0 = 0 /\ env = <<>> /\ result = 0
            /\ panic = "" /\ trace = <<>> /\ logged = <<>>
       ELSE TRUE
    /\ IF "build" \in S
       THEN build = [test |-> FALSE, debug_assertions |-> FALSE]
       ELSE TRUE
    /\ IF "trait" \in S
       THEN trait_ = NoUnit /\ impl_ = NoUnit /\ callee = NoCallee
       ELSE TRUE

(***************************************************************************)
(* Mode resolution: the attribute macro resolves the mode it declares      *)
(* (lib.rs), and synthesis resolves the mode of each contract              *)
(* (implementation/mod.rs).                                                *)
(***************************************************************************)
InitMode ==
    /\ features \in FeatureSets
    /\ declared \in ContractMode
    /\ mode = declared
    /\ stage = "declared"
    /\ Idle({"parse", "gen", "run", "build", "trait"})

\* lib.rs: `let mode = final_mode(ContractMode::..)` of an attribute macro
ResolveAtEntry ==
    /\ stage = "declared"
    /\ mode' = lib_final_mode(mode)
    /\ stage' = "entry"
    /\ UNCHANGED <<trait_, impl_, callee, features, build, pipeline, declared, toks, parsed,
                   func, out, pc, ip, x0, env, result, panic, trace, logged>>

\* lib.rs: impl_impl_invariant puts #[<name>invariant] on a method of the
\* block, and the attribute macro of that name resolves the mode it
\* declares; rustc finds no macro when the name is not exported.
Reattach ==
    /\ stage = "entry"
    /\ lib_name(mode) # <<>>
    /\ lib_exported(lib_name(mode)[1] \o "invariant").some
    /\ mode' = lib_final_mode(lib_exported(lib_name(mode)[1] \o "invariant").mode)
    /\ stage' = "attached"
    /\ UNCHANGED <<trait_, impl_, callee, features, build, pipeline, declared, toks, parsed,
                   func, out, pc, ip, x0, env, result, panic, trace, logged>>

\* implementation/mod.rs: `let mode = final_mode(c.mode)` in generate
ResolveAtSynthesis ==
    /\ stage \in {"declared", "entry", "attached"}
    /\ mode' = final_mode(mode)
    /\ stage' = "synth"
    /\ UNCHANGED <<trait_, impl_, callee, features, build, pipeline, declared, toks, parsed,
                   func, out, pc, ip, x0, env, result, panic, trace, logged>>

NextMode == ResolveAtEntry \/ Reattach \/ ResolveAtSynthesis

SpecMode == InitMode /\ [][NextMode]_vars

(***************************************************************************)
(* The attribute parser.                                                   *)
(***************************************************************************)
InitParse ==
    /\ features = NoFeatures
    /\ toks \in ArgLists
    /\ parsed = [state |-> "none", exprs |-> <<>>, desc |-> NoDesc]
    /\ Idle({"mode", "gen", "run", "build", "trait"})

\* implementation/parse.rs: parse_attributes
Parse ==
    /\ parsed.state = "none"
    /\ stage = "off" /\ pc = "off"
    /\ parsed' = parse_attributes(toks)
    /\ UNCHANGED <<trait_, impl_, callee, features, build, pipeline, declared, mode, stage, toks,
                   func, out, pc, ip, x0, env, result, panic, trace, logged>>

NextParse == Parse

SpecParse == InitParse /\ [][NextParse]_vars

(***************************************************************************)
(* Expansion.  rustc expands the first attribute macro of an item and      *)
(* hands it the item with the attributes that are left.                    *)
(***************************************************************************)
\* The index of the first attribute from i on that names a macro of the
\* pipeline, 0 when there is none.
RECURSIVE FirstIndex(_, _, _)
FirstIndex(attrs, pl, i) ==
    IF i > Len(attrs) THEN 0
    ELSE IF (IF pl = "lib" THEN lib_exported(attrs[i].name).some
                           ELSE contract_type_and_mode(attrs[i].name).some)
         THEN i
    ELSE FirstIndex(attrs, pl, i + 1)

RemoveAt(seq, i) == SubSeq(seq, 1, i - 1) \o SubSeq(seq, i + 1, Len(seq))

PendingOf(pl, o) ==
    /\ o.state # "panic"
    /\ FirstIndex(o.attrs, pl, 1) > 0

\* lib.rs: one call of an attribute macro (pre, post, invariant, ..)
lib_expand(o) ==
    LET i == FirstIndex(o.attrs, "lib", 1)
        a == o.attrs[i]
        e == lib_exported(a.name)
        item == [o EXCEPT !.attrs = RemoveAt(@, i)]
    IN  [lib_attribute(a, item) EXCEPT !.contracts =
            Append(@, from_toks(e.ty, lib_final_mode(e.mode), a.args))]

\* One call of an attribute macro over implementation/mod.rs: pre of
\* pre.rs for the pre-conditions, with the resolved mode as the macros of
\* lib.rs pass it; post of post.rs, and the like for the invariants.  The
\* contracts record what has been expanded so far.
mod_expand(o) ==
    LET i == FirstIndex(o.attrs, "mod", 1)
        a == o.attrs[i]
        tm == contract_type_and_mode(a.name)
        item == [o EXCEPT !.attrs = RemoveAt(@, i)]
        f == new_with_initial_contract(item.attrs, tm.ty, tm.mode, a.args)
    IN  IF tm.ty = "Pre"
        THEN [implementation_pre(final_mode(tm.mode), a.args, item)
                EXCEPT !.contracts =
                    Append(@, from_toks(tm.ty, final_mode(tm.mode), a.args))]
        ELSE IF ~f.ok THEN Panicked(o)
        ELSE mod_generate([o EXCEPT !.attrs = f.attrs], f.contracts)

\* The attribute macros over implementation/codegen.rs: build the model,
\* describe the contracts as written, extract the old() calls, generate.
codegen_expand(o) ==
    LET i == FirstIndex(o.attrs, "codegen", 1)
        a == o.attrs[i]
        tm == contract_type_and_mode(a.name)
        f == new_with_initial_contract(RemoveAt(o.attrs, i),
                                       tm.ty, tm.mode, a.args)
        docs == generate_attributes(f.contracts)
        x == extract_old_calls(f.contracts)
    IN  IF ~f.ok THEN Panicked(o)
        ELSE generate([o EXCEPT !.attrs = f.attrs], x.contracts, docs, x.olds)

ExpandLib ==
    /\ pipeline = "lib" /\ pc \in {"off", "idle"} /\ PendingOf(pipeline, out)
    /\ out' = lib_expand(out)
    /\ UNCHANGED <<trait_, impl_, callee, features, build, pipeline, declared, mode, stage, toks,
                   parsed, func, pc, ip, x0, env, result, panic, trace, logged>>

ExpandMod ==
    /\ pipeline = "mod" /\ pc \in {"off", "idle"} /\ PendingOf(pipeline, out)
    /\ out' = mod_expand(out)
    /\ UNCHANGED <<trait_, impl_, callee, features, build, pipeline, declared, mode, stage, toks,
                   parsed, func, pc, ip, x0, env, result, panic, trace, logged>>

ExpandCodegen ==
    /\ pipeline = "codegen" /\ pc \in {"off", "idle"} /\ PendingOf(pipeline, out)
    /\ out' = codegen_expand(out)
    /\ UNCHANGED <<trait_, impl_, callee, features, build, pipeline, declared, mode, stage, toks,
                   parsed, func, pc, ip, x0, env, result, panic, trace, logged>>

\* rustc expands the attribute macros of an item until none is left.
RECURSIVE expand_all(_, _)
expand_all(pl, o) ==
    IF ~PendingOf(pl, o) THEN o
    ELSE expand_all(pl, CASE pl = "lib" -> lib_expand(o)
                          [] pl = "mod" -> mod_expand(o)
                          [] OTHER -> codegen_expand(o))

InitGen ==
    /\ features \in FeatureSets
    /\ pipeline \in Pipelines
    /\ func \in {Source("f", attrs, BodyEarly) :
                    attrs \in SeqsOf(AttrCatalog, 1, MaxAttrs)}
               \cup
               \* contracts among attributes that are none, any of these in
               \* this order
               {Source("f", Pick(mixed, sel), BodyEarly) :
                    sel \in SUBSET (1..5),
                    mixed \in { << Attr("doc", <<StrLit("\"adds\"")>>, FALSE),
                                   Attr("pre", <<XLe1>>, FALSE),
                                   Attr("inline", <<>>, FALSE),
                                   Attr("debug_post", <<RetGe1, Desc1>>, FALSE),
                                   Attr("invariant", <<XLe2>>, TRUE) >>,
                                << Attr("doc", <<StrLit("\"adds\"")>>, FALSE),
                                   Attr("inline", <<>>, FALSE),
                                   Attr("debug_post", <<RetGe1, Desc1>>, FALSE),
                                   Attr("invariant", <<XLe2>>, TRUE),
                                   Attr("pre", <<XLe1>>, FALSE) >> }}
    /\ out = func
    /\ Idle({"mode", "parse", "run", "build", "trait"})

NextGen == ExpandLib \/ ExpandMod \/ ExpandCodegen

SpecGen == InitGen /\ [][NextGen]_vars

(***************************************************************************)
(* A call of the function, one instruction of the expanded body at a time. *)
(***************************************************************************)
\* An entry of the trace: the phase of the instruction, its place in the
\* program and how it went: "eval" (a check tested its condition), "skip"
\* (a check compiled out or without run-time effect), "abort", "run" (a
\* binding, the body or the final ret) or "return" (the body left the
\* function).
Event(ev, i, how) == [ev |-> ev, ip |-> i, how |-> how]

\* rustc accepts the expanded function; the caller passes x.
Call ==
    /\ pc = "idle" /\ ~PendingOf(pipeline, out) /\ out.state # "panic" /\ Compiles(out)
    /\ \E v \in 0..MaxVal : x0' = v /\ env' = ("x" :> v)
    /\ pc' = "running" /\ ip' = 1
    /\ UNCHANGED <<trait_, impl_, callee, features, build, pipeline, declared, mode, stage, toks,
                   parsed, func, out, result, panic, trace, logged>>

\* rustc rejects the expanded function.
Reject ==
    /\ pc = "idle" /\ ~PendingOf(pipeline, out) /\ out.state # "panic" /\ ~Compiles(out)
    /\ pc' = "rejected"
    /\ UNCHANGED <<trait_, impl_, callee, features, build, pipeline, declared, mode, stage, toks,
                   parsed, func, out, ip, x0, env, result, panic, trace, logged>>

\* One emitted statement runs.
StepCheck ==
    /\ pc = "running" /\ Program(out)[ip].op = "check"
    /\ LET in == Program(out)[ip]
           st == in.arg
           active == st.gate = "none" \/ build.test
           evaluates == active /\ (st.log \/ Aborting(st.macro))
           fails == evaluates /\ ~EvalExpr(st.exec, env)
       IN  /\ logged' = IF fails /\ st.log THEN Append(logged, st.msg) ELSE logged
           /\ IF fails /\ Aborting(st.macro)
              THEN /\ pc' = "panic" /\ panic' = st.msg /\ ip' = ip
                   /\ trace' = Append(trace, Event(in.phase, ip, "abort"))
              ELSE /\ pc' = pc /\ panic' = panic /\ ip' = ip + 1
                   /\ trace' = Append(trace,
                          Event(in.phase, ip, IF evaluates THEN "eval" ELSE "skip"))
    /\ UNCHANGED <<trait_, impl_, callee, features, build, pipeline, declared, mode, stage, toks,
                   parsed, func, out, x0, env, result>>

\* `let __contract_old_N = expr;`
StepBind ==
    /\ pc = "running" /\ Program(out)[ip].op = "let"
    /\ LET old == Program(out)[ip].arg
       IN  env' = (old.name :> EvalExpr(old.expr, env)) @@ env
    /\ ip' = ip + 1
    /\ trace' = Append(trace, Event("old", ip, "run"))
    /\ UNCHANGED <<trait_, impl_, callee, features, build, pipeline, declared, mode, stage, toks,
                   parsed, func, out, pc, x0, result, panic, logged>>

\* The original body runs inside the innermost layer.  A `return` leaves a
\* closure with its value; anywhere else it leaves the function.
StepBody ==
    /\ pc = "running" /\ Program(out)[ip].op = "body"
    /\ ~IsForward(out.body)
    /\ LET r == ExecBlock(out.body, env)
           land == Landing(out.layers, r.kind)
       IN  IF land >= 0
           THEN /\ env' = ("ret" :> r.val) @@ r.env
                /\ pc' = pc /\ ip' = ip + 1 + land /\ result' = result
                /\ trace' = Append(trace, Event("body", ip, "run"))
           ELSE /\ env' = r.env
                /\ pc' = "done" /\ ip' = ip /\ result' = r.val
                /\ trace' = Append(trace, Event("body", ip, "return"))
    /\ UNCHANGED <<trait_, impl_, callee, features, build, pipeline, declared, mode, stage, toks,
                   parsed, func, out, x0, panic, logged>>

\* The final `ret` of the new block.
StepYield ==
    /\ pc = "running" /\ Program(out)[ip].op = "yield"
    /\ pc' = "done" /\ result' = env["ret"]
    /\ trace' = Append(trace, Event("yield", ip, "run"))
    /\ UNCHANGED <<trait_, impl_, callee, features, build, pipeline, declared, mode, stage, toks,
                   parsed, func, out, ip, x0, env, panic, logged>>

Init ==
    /\ features \in FeatureSets
    /\ build \in Builds
    /\ pipeline \in Pipelines
    /\ func \in {Source("f", Pick(RunAttrs, sel), b) :
                    sel \in SUBSET (1..Len(RunAttrs)), b \in Bodies}
    /\ out = func
    /\ pc = "idle" /\ ip = 0 /\ x0 = 0 /\ env = <<>> /\ result = 0 /\ panic = ""
    /\ trace = <<>> /\ logged = <<>>
    /\ Idle({"mode", "parse", "trait"})

Next ==
    \/ ExpandLib \/ ExpandMod \/ ExpandCodegen
    \/ Call \/ Reject
    \/ StepCheck \/ StepBind \/ StepBody \/ StepYield

Spec == Init /\ [][Next]_vars

(***************************************************************************)
(* Trait propagation: a trait and one impl block of it, each marked with   *)
(* #[contract_trait] or not.  rustc expands the markers, accepts or        *)
(* rejects the two items, and the program calls a method of the trait on   *)
(* the implementing type.                                                  *)
(***************************************************************************)
Recv == <<"self">>
PX == <<"ident", "x", FALSE>>
PY == <<"ident", "y", FALSE>>

InlineAttr == Attr("inline", <<>>, FALSE)
ConstK == Item("const", "K", <<Attr("doc", <<StrLit("\"adds\"")>>, FALSE)>>, <<>>, <<>>)

\* The traits: a method m with contracts, alone, after a constant, or
\* before a constant and a second method g.  A method without a body takes
\* plain parameter lists; rustc accepts the other patterns on a method with
\* a body only.
Traits ==
    LET PlainSignatures == { <<Recv, PX>>, <<PX>>, <<Recv, PX, PY>> }
        PatternSignatures ==
            { <<Recv, <<"ident", "x", TRUE>> >>,
              <<Recv, <<"tuple", <<PX, PY>> >> >>,
              <<Recv, <<"tuple", <<PX, <<"tuple", <<PY>> >> >> >>,
                <<"ident", "z", FALSE>> >>,
              <<Recv, <<"tuplestruct", <<PX>> >> >>,
              <<Recv, <<"tuple", <<PX, <<"wild">> >> >> >>,
              <<Recv, <<"wild">> >> }
        TraitAttrLists ==
            { << Attr("pre", <<XLe1>>, FALSE) >>,
              << ConstK.attrs[1], Attr("pre", <<XLe1, Desc1>>, FALSE),
                 Attr("post", <<RetOld>>, FALSE) >> }
        TraitMethods ==
            { Item("method", "m", attrs, inputs, default) :
                attrs \in TraitAttrLists,
                inputs \in PlainSignatures,
                default \in {<<>>, <<BodyInc>>} }
            \cup
            { Item("method", "m", attrs, inputs, <<BodyInc>>) :
                attrs \in TraitAttrLists,
                inputs \in PatternSignatures }
        MethodG == Item("method", "g", <<>>, <<Recv, PX>>, <<>>)
        TraitLayouts(m) == { <<m>>, <<ConstK, m>>, <<m, ConstK, MethodG>> }
    IN  { [marked |-> mk, attrs |-> <<>>, state |-> "source", items |-> items] :
            mk \in BOOLEAN,
            items \in UNION { TraitLayouts(m) : m \in TraitMethods } }

\* The impl blocks of a trait: the trait's constant, and the methods named
\* in defs with the attributes and the body given.
ImplItems(t, defs, attrs, body) ==
    LET Defined(item) == ~IsMethod(item) \/ item.name \in defs
        kept == SelectSeq(t.items, Defined)
    IN  [i \in 1..Len(kept) |->
            IF IsMethod(kept[i])
            THEN Item("method", kept[i].name, attrs, kept[i].inputs, <<body>>)
            ELSE [kept[i] EXCEPT !.default = <<IntLit(1)>>]]

ImplsOf(t) ==
    { [marked |-> mk, attrs |-> <<>>, state |-> "source",
       items |-> ImplItems(t, defs, attrs, body)] :
        mk \in BOOLEAN,
        defs \in SUBSET {t.items[i].name : i \in 1..Len(t.items)},
        attrs \in {<<>>, <<InlineAttr>>, <<Attr("pre", <<XGe1>>, FALSE)>>},
        body \in {BodyInc, BodyEarly} }

InitTrait ==
    /\ features = NoFeatures
    /\ pipeline \in {"mod", "codegen"}
    /\ trait_ \in Traits
    /\ impl_ \in ImplsOf(trait_)
    /\ callee = NoCallee
    /\ func = Source("f", <<>>, <<>>) /\ out = func
    /\ pc = "unit" /\ ip = 0 /\ x0 = 0 /\ env = <<>> /\ result = 0 /\ panic = ""
    /\ trace = <<>> /\ logged = <<>>
    /\ Idle({"mode", "parse", "build"})

\* #[contract_trait] on the trait
ExpandTrait ==
    /\ pc = "unit" /\ trait_.marked /\ trait_.state = "source"
    /\ trait_' = contract_trait_item_trait(trait_)
    /\ UNCHANGED <<impl_, callee, features, build, pipeline, declared, mode,
                   stage, toks, parsed, func, out, pc, ip, x0, env, result,
                   panic, trace, logged>>

\* #[contract_trait] on the impl block
ExpandImpl ==
    /\ pc = "unit" /\ impl_.marked /\ impl_.state = "source"
    /\ impl_' = contract_trait_item_impl(impl_)
    /\ UNCHANGED <<trait_, callee, features, build, pipeline, declared, mode,
                   stage, toks, parsed, func, out, pc, ip, x0, env, result,
                   panic, trace, logged>>

RECURSIVE pat_names(_)
pat_names(pat) ==
    CASE pat[1] = "self" -> {"self"}
      [] pat[1] = "ident" -> {pat[2]}
      [] pat[1] \in {"tuple", "tuplestruct"} ->
            UNION {pat_names(pat[2][i]) : i \in 1..Len(pat[2])}
      [] OTHER -> {}

\* The first method with a body from i on whose contract attributes are
\* not expanded yet, 0 when there is none.
RECURSIVE FirstSource(_, _)
FirstSource(items, i) ==
    IF i > Len(items) THEN 0
    ELSE IF IsMethod(items[i]) /\ items[i].default # <<>> /\ items[i].code = <<>>
         THEN i
    ELSE FirstSource(items, i + 1)

\* rustc has expanded the attribute macros on the trait or impl block.
Expanded(u) == u.state # "source" \/ (~u.marked /\ u.attrs = <<>>)

\* rustc expands the contract attributes of a method with a body, once the
\* markers are expanded: the methods of the trait first, then those of the
\* impl block.
ExpandMethod ==
    /\ pc = "unit" /\ Expanded(trait_) /\ Expanded(impl_)
    /\ trait_.state # "panic" /\ impl_.state # "panic"
    /\ LET all == trait_.items \o impl_.items
           k == FirstSource(all, 1)
       IN  /\ k > 0
           /\ LET code == expand_all(pipeline,
                              Source(all[k].name, all[k].attrs, all[k].default[1]))
                  j == k - Len(trait_.items)
              IN  IF j < 1
                  THEN /\ trait_' = [trait_ EXCEPT !.items[k].code = <<code>>]
                       /\ impl_' = impl_
                  ELSE /\ impl_' = [impl_ EXCEPT !.items[j].code = <<code>>]
                       /\ trait_' = trait_
    /\ UNCHANGED <<callee, features, build, pipeline, declared, mode,
                   stage, toks, parsed, func, out, pc, ip, x0, env, result,
                   panic, trace, logged>>

\* rustc on one method: the contract macros need a function with a body,
\* every attribute that is left must resolve (doc and inline do), and the
\* names of the body and of the conditions must be bound, by a parameter
\* or, in a method with a receiver, as a field of the type.
MethodCompiles(pl, item, fields) ==
    IF item.default = <<>> THEN FirstIndex(item.attrs, pl, 1) = 0
    ELSE /\ item.code[1].state # "panic"
         /\ \A k \in 1..Len(item.code[1].attrs) :
               item.code[1].attrs[k].name \in {"doc", "inline"}
         /\ Compiles(item.code[1])
         /\ \/ IsForward(item.default[1]) /\ item.code[1].layers = <<>>
            \/ "x" \in UNION {pat_names(item.inputs[i]) :
                                i \in 1..Len(item.inputs)}
            \/ /\ "x" \in fields
               /\ item.inputs # <<>> /\ item.inputs[1][1] = "self"

\* rustc on the trait and the impl block: the macros on them have expanded
\* without a panic, every item of an impl block of a trait is a member of
\* the trait (E0407, E0438), every item the trait gives no default for is in
\* the impl block (E0046), every item of an impl block has its body or its
\* value, and every method compiles.  An impl block without a trait is the
\* inherent one of a struct with the field x.
UnitCompiles(pl, t, b) ==
    /\ t.state # "panic" /\ b.state # "panic"
    /\ \A i \in 1..Len(b.items) :
          \/ t = NoUnit
          \/ \E j \in 1..Len(t.items) :
                t.items[j].kind = b.items[i].kind
                    /\ t.items[j].name = b.items[i].name
    /\ \A j \in 1..Len(t.items) :
          t.items[j].default = <<>> =>
              \E i \in 1..Len(b.items) :
                  t.items[j].kind = b.items[i].kind
                      /\ t.items[j].name = b.items[i].name
    /\ \A i \in 1..Len(b.items) : b.items[i].default # <<>>
    /\ \A j \in 1..Len(t.items) :
          IsMethod(t.items[j]) => MethodCompiles(pl, t.items[j], {})
    /\ \A i \in 1..Len(b.items) :
          IsMethod(b.items[i]) =>
              MethodCompiles(pl, b.items[i], IF t = NoUnit THEN {"x"} ELSE {})

\* Every attribute macro of the trait and the impl block has expanded, or
\* one has panicked.
Coded ==
    /\ Expanded(trait_) /\ Expanded(impl_)
    /\ \/ trait_.state = "panic" \/ impl_.state = "panic"
       \/ FirstSource(trait_.items \o impl_.items, 1) = 0

\* rustc accepts the trait and the impl block.
AcceptUnit ==
    /\ pc = "unit" /\ Coded
    /\ UnitCompiles(pipeline, trait_, impl_)
    /\ pc' = "linked"
    /\ UNCHANGED <<trait_, impl_, callee, features, build, pipeline, declared,
                   mode, stage, toks, parsed, func, out, ip, x0, env, result,
                   panic, trace, logged>>

\* rustc rejects them, or a marker has panicked.
RejectUnit ==
    /\ pc = "unit" /\ Coded
    /\ ~UnitCompiles(pipeline, trait_, impl_)
    /\ pc' = "rejected"
    /\ UNCHANGED <<trait_, impl_, callee, features, build, pipeline, declared,
                   mode, stage, toks, parsed, func, out, ip, x0, env, result,
                   panic, trace, logged>>

\* The values a parameter list can be called with.
RECURSIVE pat_values(_)
RECURSIVE pats_values(_, _)
pat_values(pat) ==
    CASE pat[1] = "self" -> {0}
      [] pat[1] \in {"tuple", "tuplestruct"} -> pats_values(pat[2], 1)
      [] OTHER -> 0..MaxVal

pats_values(pats, i) ==
    IF i > Len(pats) THEN {<<>>}
    ELSE {<<h>> \o t : h \in pat_values(pats[i]), t \in pats_values(pats, i + 1)}

InternalNames == {contract_method_impl_name(n) : n \in {"m", "g"}}

\* The program calls a method of the trait by its public name.
TraitCall ==
    /\ pc = "linked"
    /\ \E j \in 1..Len(trait_.items) :
          /\ IsMethod(trait_.items[j])
          /\ trait_.items[j].name \notin InternalNames
          /\ LET d == Dispatch(trait_, impl_, trait_.items[j].name)
             IN  \E vals \in pats_values(d.method.inputs, 1) :
                    LET en == bind_all(d.method.inputs, vals, 1)
                    IN  /\ out' = d.method.code[1]
                        /\ func' = Source(d.method.name, d.method.attrs,
                                          d.method.default[1])
                        /\ callee' = [unit |-> d.unit, name |-> d.method.name,
                                      env |-> en]
                        /\ env' = en /\ x0' = en["x"]
    /\ pc' = "running" /\ ip' = 1
    /\ UNCHANGED <<trait_, impl_, features, build, pipeline, declared, mode,
                   stage, toks, parsed, result, panic, trace, logged>>

\* The wrapper's body: `Self::name(arguments)` evaluates the arguments,
\* calls the method the name resolves to, with the checks its own contract
\* attributes expanded to, and yields what it returns; a check that aborts
\* in it aborts the call.  A method that forwards to itself never returns.
StepForward ==
    /\ pc = "running" /\ Program(out)[ip].op = "body"
    /\ IsForward(out.body)
    /\ LET s == out.body[1]
           d == Dispatch(trait_, impl_, s[2])
           vals == [i \in 1..Len(s[3]) |-> EvalExpr(s[3][i], env)]
           en == bind_all(d.method.inputs, vals, 1)
           r == Invoke(d.method.code[1], en)
       IN  /\ callee' = [unit |-> d.unit, name |-> s[2], env |-> en]
           /\ IF IsForward(d.method.default[1])
              THEN /\ pc' = "overflow"
                   /\ UNCHANGED <<ip, env, trace, panic, logged>>
              ELSE IF r.kind = "panic"
              THEN /\ pc' = "panic" /\ panic' = r.msg
                   /\ logged' = logged \o r.logged
                   /\ trace' = Append(trace, Event("body", ip, "abort"))
                   /\ UNCHANGED <<ip, env>>
              ELSE /\ env' = ("ret" :> r.val) @@ env
                   /\ pc' = pc /\ ip' = ip + 1
                   /\ panic' = panic /\ logged' = logged \o r.logged
                   /\ trace' = Append(trace, Event("body", ip, "run"))
    /\ UNCHANGED <<trait_, impl_, features, build, pipeline, declared, mode,
                   stage, toks, parsed, func, out, x0, result>>

NextTrait ==
    \/ ExpandTrait \/ ExpandImpl \/ ExpandMethod
    \/ AcceptUnit \/ RejectUnit
    \/ TraitCall \/ StepForward
    \/ StepCheck \/ StepBind \/ StepBody \/ StepYield

SpecTrait == InitTrait /\ [][NextTrait]_vars

(***************************************************************************)
(* Invariants on impl blocks (lib.rs).  The block is an inherent impl of a *)
(* struct with one numeric field; x names that field in the body and the   *)
(* conditions of a method with a receiver, and the parameter of a method   *)
(* without one.                                                            *)
(***************************************************************************)
\* lib.rs: method_uses_self of impl_impl_invariant
method_uses_self(method) ==
    method.inputs # <<>> /\ method.inputs[1] = Recv

\* lib.rs: impl_impl_invariant
impl_impl_invariant(m, invariant, impl_def) ==
    IF lib_name(m) = <<>> THEN [impl_def EXCEPT !.state = "expanded"]
    ELSE [impl_def EXCEPT
            !.state = "expanded",
            !.items = [i \in 1..Len(impl_def.items) |->
                IF IsMethod(impl_def.items[i])
                      /\ method_uses_self(impl_def.items[i])
                THEN [impl_def.items[i] EXCEPT !.attrs =
                        <<Attr(lib_name(m)[1] \o "invariant",
                               invariant.items, invariant.trailing)>> \o @]
                ELSE impl_def.items[i]]]

\* lib.rs: impl_invariant, for an item that is an impl block.  The name of
\* the attribute is computed first, and unwrap() panics when the mode has
\* none.
impl_invariant_of_impl(m, invariant, impl_def) ==
    IF lib_name(m) = <<>> THEN [impl_def EXCEPT !.state = "panic"]
    ELSE impl_impl_invariant(m, invariant, impl_def)

\* .. { x += 3; x -= 3; x }
BodyDip ==
    << <<"assign", "x", Bin("+", Path("x"), IntLit(3))>>,
       <<"assign", "x", Bin("-", Path("x"), IntLit(3))>>,
       <<"tail", Path("x")>> >>

\* .. { if x >= 1 { x += 2; return 0; } x += 1; x }
BodyLeave ==
    << <<"if", XGe1,
            << <<"assign", "x", Bin("+", Path("x"), IntLit(2))>>,
               <<"return", IntLit(0)>> >> >>,
       <<"assign", "x", Bin("+", Path("x"), IntLit(1))>>,
       <<"tail", Path("x")>> >>

\* The impl blocks: a method get with a receiver, beside a constructor,
\* beside a constant with its value (const K: i32 = 1) and a second method
\* with a receiver, or beside a method whose second parameter is named
\* like the field, or between the two, each with post-conditions written
\* with old() and the last with a parameter of the name __contract_old_0.
Blocks ==
    LET BlockInvariants ==
            { Attr("invariant", <<XLe2>>, FALSE),
              Attr("invariant", <<XGe0, XLe2, Desc1>>, TRUE),
              Attr("debug_invariant", <<XLe2>>, FALSE) }
        Receivers ==
            { Item("method", "get", attrs, <<Recv>>, <<body>>) :
                attrs \in {<<>>, <<Attr("post", <<RetOld>>, FALSE)>>},
                body \in {BodyInc, BodyDip, BodyLeave} }
        BlockLayouts(m) ==
            { <<Item("method", "new", <<>>, <<PX>>, <<BodyInc>>), m>>,
              <<[ConstK EXCEPT !.default = <<IntLit(1)>>], m,
                Item("method", "put", <<InlineAttr>>, <<Recv, PY>>, <<BodyInc>>)>>,
              <<m, Item("method", "of", <<>>, <<PY, PX>>, <<BodyInc>>)>>,
              <<Item("method", "new", <<Attr("post", <<RetOld>>, FALSE)>>, <<PX>>,
                     <<BodyInc>>),
                m,
                Item("method", "of", <<Attr("post", <<RetOld, XGeOld>>, FALSE)>>,
                     << <<"ident", "__contract_old_0", FALSE>>, PX >>,
                     <<BodyInc>>)>> }
    IN  { [marked |-> FALSE, attrs |-> <<a>>, state |-> "source", items |-> items] :
            a \in BlockInvariants,
            items \in UNION { BlockLayouts(m) : m \in Receivers } }

InitImpl ==
    /\ features \in FeatureSets
    /\ build \in Builds
    /\ pipeline \in Pipelines
    /\ trait_ = NoUnit
    /\ impl_ \in Blocks
    /\ callee = NoCallee
    /\ func = Source("f", <<>>, <<>>) /\ out = func
    /\ pc = "unit" /\ ip = 0 /\ x0 = 0 /\ env = <<>> /\ result = 0 /\ panic = ""
    /\ trace = <<>> /\ logged = <<>>
    /\ Idle({"mode", "parse"})

\* lib.rs: invariant, debug_invariant, test_invariant on an impl block
ExpandBlock ==
    /\ pc = "unit" /\ impl_.state = "source" /\ impl_.attrs # <<>>
    /\ LET a == impl_.attrs[1]
           m == lib_final_mode(lib_exported(a.name).mode)
       IN  impl_' = impl_invariant_of_impl(m, a.args,
                        [impl_ EXCEPT !.attrs = Tail(@)])
    /\ UNCHANGED <<trait_, callee, features, build, pipeline, declared, mode,
                   stage, toks, parsed, func, out, pc, ip, x0, env, result,
                   panic, trace, logged>>

\* The program calls a method of the block.
MethodCall ==
    /\ pc = "linked" /\ trait_ = NoUnit
    /\ \E j \in 1..Len(impl_.items) : \E v \in 0..MaxVal :
          /\ IsMethod(impl_.items[j])
          /\ out' = impl_.items[j].code[1]
          /\ func' = Source(impl_.items[j].name, impl_.items[j].attrs,
                            impl_.items[j].default[1])
          /\ callee' = [unit |-> "impl", name |-> impl_.items[j].name,
                        env |-> ("x" :> v)]
          /\ env' = ("x" :> v) /\ x0' = v
    /\ pc' = "running" /\ ip' = 1
    /\ UNCHANGED <<trait_, impl_, features, build, pipeline, declared, mode,
                   stage, toks, parsed, result, panic, trace, logged>>

NextImpl ==
    \/ ExpandBlock \/ ExpandMethod
    \/ AcceptUnit \/ RejectUnit
    \/ MethodCall
    \/ StepCheck \/ StepBind \/ StepBody \/ StepYield

SpecImpl == InitImpl /\ [][NextImpl]_vars

(***************************************************************************)
(* The implication operator.  A condition is rewritten on its tokens       *)
(* before the expression grammar reads it.  A token is                     *)
(*   <<"id", name>>      an identifier                                     *)
(*   <<"op", text>>      "==>", "!" or "||"                                *)
(*   <<"group", tokens>> a parenthesised run of tokens                     *)
(* and the grammar yields, besides the expressions above,                  *)
(*   <<"not", e>>        !e                                                *)
(*   <<"paren", e>>      (e)                                               *)
(***************************************************************************)
MaxToks == 5

Implies == <<"op", "==>">>

\* A rewrite that splits at the last marker of a run.
RECURSIVE rewrite_left(_)
rewrite_left(ts) ==
    LET IsMarker(i) == ts[i] = Implies
        at == SelectSeq([i \in 1..Len(ts) |-> i], IsMarker)
        last == at[Len(at)]
    IN  IF at = <<>>
        THEN [k \in 1..Len(ts) |->
                IF ts[k][1] = "group" THEN <<"group", rewrite_left(ts[k][2])>>
                ELSE ts[k]]
        ELSE << <<"op", "!">>,
                <<"group", rewrite_left(SubSeq(ts, 1, last - 1))>>,
                <<"op", "||">>,
                <<"group", rewrite_left(SubSeq(ts, last + 1, Len(ts)))>> >>

\* The implication rewriter: the run is split at its first marker outside
\* any group into antecedent and consequent, the consequent is rewritten
\* the same way, and the two are put together as !(antecedent) ||
\* (consequent).  The tokens of a group are a run of their own.
RECURSIVE rewrite(_)
rewrite(ts) ==
    LET IsMarker(i) == ts[i] = Implies
        at == SelectSeq([i \in 1..Len(ts) |-> i], IsMarker)
    IN  IF at = <<>>
        THEN [k \in 1..Len(ts) |->
                IF ts[k][1] = "group" THEN <<"group", rewrite(ts[k][2])>>
                ELSE ts[k]]
        ELSE << <<"op", "!">>,
                <<"group", rewrite(SubSeq(ts, 1, at[1] - 1))>>,
                <<"op", "||">>,
                <<"group", rewrite(SubSeq(ts, at[1] + 1, Len(ts)))>> >>

\* The expression grammar on the tokens of a condition: operands joined by
\* ||, an operand being an identifier, a group or ! before an operand.
RECURSIVE parse_cond(_)
parse_cond(ts) ==
    LET Fail == [ok |-> FALSE, expr |-> <<>>, next |-> 0]
        RECURSIVE unary(_)
        RECURSIVE rest(_, _)
        unary(i) ==
            IF i > Len(ts) THEN Fail
            ELSE CASE ts[i] = <<"op", "!">> ->
                        LET r == unary(i + 1)
                        IN  IF r.ok THEN [r EXCEPT !.expr = <<"not", @>>] ELSE Fail
                   [] ts[i][1] = "id" ->
                        [ok |-> TRUE, expr |-> Path(ts[i][2]), next |-> i + 1]
                   [] ts[i][1] = "group" ->
                        LET r == parse_cond(ts[i][2])
                        IN  IF r.ok
                            THEN [ok |-> TRUE, expr |-> <<"paren", r.expr>>,
                                  next |-> i + 1]
                            ELSE Fail
                   [] OTHER -> Fail
        rest(acc, i) ==
            IF i > Len(ts) THEN [ok |-> TRUE, expr |-> acc, next |-> i]
            ELSE IF ts[i] # <<"op", "||">> THEN Fail
            ELSE LET r == unary(i + 1)
                 IN  IF r.ok THEN rest(Bin("||", acc, r.expr), r.next) ELSE Fail
        first == unary(1)
    IN  IF first.ok THEN rest(first.expr, first.next) ELSE Fail

\* The conditions: up to MaxToks tokens out of three identifiers, the
\* operators and the group (A ==> B).
InitImplies ==
    /\ features = NoFeatures
    /\ toks \in [items : SeqsOf({ <<"id", "A">>, <<"id", "B">>, <<"id", "C">>,
                                   Implies, <<"op", "!">>, <<"op", "||">>,
                                   <<"group", << <<"id", "A">>, Implies,
                                                 <<"id", "B">> >> >> },
                                 0, MaxToks),
                 trailing : {FALSE}]
    /\ parsed = [state |-> "none", exprs |-> <<>>, desc |-> NoDesc]
    /\ Idle({"mode", "gen", "run", "build", "trait"})

\* A condition is rewritten and handed to the expression grammar.
RewriteImplies ==
    /\ parsed.state = "none"
    /\ stage = "off" /\ pc = "off"
    /\ LET r == parse_cond(rewrite(toks.items))
       IN  parsed' = IF r.ok
                     THEN [state |-> "ok", exprs |-> <<r.expr>>, desc |-> NoDesc]
                     ELSE [state |-> "panic", exprs |-> <<>>, desc |-> NoDesc]
    /\ UNCHANGED <<trait_, impl_, callee, features, build, pipeline, declared,
                   mode, stage, toks, func, out, pc, ip, x0, env, result,
                   panic, trace, logged>>

NextImplies == RewriteImplies

SpecImplies == InitImplies /\ [][NextImplies]_vars

(***************************************************************************)
(* Properties of mode resolution, checked under SpecMode.                  *)
(***************************************************************************)
\* C1: for every combination of the feature flags final_mode maps Test to
\* Test and Disabled to Disabled.
C1_TestAndDisabledAreKept ==
    stage \in {"entry", "synth"} =>
        /\ declared = "Test" => mode = "Test"
        /\ declared = "Disabled" => mode = "Disabled"

\* A Test contract resolved at synthesis with all three override flags on.
C1_Witness ==
    /\ stage = "synth" /\ declared = "Test" /\ mode = "Test"
    /\ features.disable_contracts
    /\ features.override_debug /\ features.override_log

\* C2: for Always, Debug and LogOnly the flags apply as a strict chain:
\* disable-all gives Disabled; otherwise force-debug gives Debug, except
\* that LogOnly stays LogOnly; otherwise force-log gives LogOnly; otherwise
\* the mode is unchanged.
C2_PrecedenceChain ==
    (stage \in {"entry", "synth"} /\ declared \in {"Always", "Debug", "LogOnly"}) =>
        mode = IF features.disable_contracts THEN "Disabled"
               ELSE IF features.override_debug
                    THEN (IF declared = "LogOnly" THEN "LogOnly" ELSE "Debug")
               ELSE IF features.override_log THEN "LogOnly"
               ELSE declared

\* An Always contract with force-debug and force-log both on resolves to
\* Debug.
C2_Witness ==
    /\ stage = "entry" /\ declared = "Always" /\ mode = "Debug"
    /\ ~features.disable_contracts
    /\ features.override_debug /\ features.override_log

\* C28: resolving a mode again changes nothing.  For every declared mode
\* and every combination of the flags, a mode that was resolved at the
\* attribute entry point keeps its value when it is resolved again, for the
\* method an impl-block invariant is attached to and at synthesis.
C28_ResolutionIsIdempotent ==
    [][(stage \in {"entry", "attached"}) => (mode' = mode)]_vars

\* An Always invariant of an impl block with force-debug and force-log on:
\* resolved to Debug at the entry point, attached as debug_invariant and
\* resolved again.
C28_Witness ==
    /\ stage = "attached" /\ declared = "Always" /\ mode = "Debug"
    /\ ~features.disable_contracts
    /\ features.override_debug /\ features.override_log

(***************************************************************************)
(* Properties of the attribute parser, checked under SpecParse.            *)
(***************************************************************************)
\* C4: parse_attributes yields a description exactly when the last item of
\* the list is a string literal; the description is that literal's value
\* and the literal is not among the assertions; a string literal in any
\* other place and a non-string literal in the last place stay assertions.
C4_DescriptionIffLastIsString ==
    parsed.state = "ok" =>
        LET n == Len(toks.items)
            lastIsStr == n > 0 /\ toks.items[n][1] = "str"
        IN  /\ (parsed.desc # NoDesc) <=> lastIsStr
            /\ lastIsStr =>
                  /\ parsed.exprs = SubSeq(toks.items, 1, n - 1)
                  /\ toks.items[n] = Desc1 => parsed.desc = <<"in range">>
                  /\ toks.items[n] = Desc2 => parsed.desc = <<"a \"b\"">>
            /\ ~lastIsStr => parsed.exprs = toks.items

\* A list with a string literal first, a non-string literal second and a
\* string literal last: only the last one becomes the description.
C4_Witness ==
    /\ parsed.state = "ok" /\ Len(toks.items) = 3
    /\ toks.items[1] = Desc2 /\ toks.items[2] = IntLit(7) /\ toks.items[3] = Desc1
    /\ parsed.desc = <<"in range">>
    /\ parsed.exprs = <<Desc2, IntLit(7)>>

(***************************************************************************)
(* Properties of the expansion, checked under SpecGen.                     *)
(***************************************************************************)
\* C3: when disable_contracts is on, the expanded function holds no check
\* for any contract, whatever mode it declares (Always, Debug, Test,
\* LogOnly) and whatever its kind.
C3_DisableRemovesEveryCheck ==
    (features.disable_contracts /\ out.state = "expanded") =>
        \A k \in 1..Len(out.layers) :
            /\ \A i \in 1..Len(out.layers[k].pre) : ~IsCheck(out.layers[k].pre[i])
            /\ \A i \in 1..Len(out.layers[k].post) : ~IsCheck(out.layers[k].post[i])

\* C7: the message of every check the synthesizer (codegen.rs) and impl_pre
\* (lib.rs) emit is
\*   <Kind> of <function> violated[: <description>]: <text of the assertion>
\* where Kind is Pre-condition, Post-condition, Invariant (as pre-condition)
\* or Invariant (as post-condition), and the text is that of the assertion
\* as written, old() calls included.
C7_MessageShape ==
    (pipeline \in {"lib", "codegen"} /\ out.state = "expanded") =>
        LET cs == out.contracts
            \* lib.rs: layer k holds the checks of contract Len(cs) + 1 - k
            Cited(k) == pipeline = "codegen" \/ cs[Len(cs) + 1 - k].ty = "Pre"
            Kind(c, pos) ==
                IF c.ty = "Invariant" THEN "Invariant (as " \o pos \o "-condition)"
                ELSE IF c.ty = "Pre" THEN "Pre-condition" ELSE "Post-condition"
            Shaped(c, pos, i) ==
                Kind(c, pos) \o " of " \o out.name \o " violated"
                    \o (IF c.desc = NoDesc THEN "" ELSE ": " \o c.desc[1])
                    \o ": " \o stringify(c.streams[i])
            Allowed(pos) ==
                UNION {{Shaped(cs[k], pos, i) : i \in 1..Len(cs[k].streams)} :
                          k \in {j \in 1..Len(cs) :
                                    IF pos = "pre" THEN IsPreKind(cs[j])
                                                   ELSE IsPostKind(cs[j])}}
        IN  \A k \in {j \in 1..Len(out.layers) : Cited(j)} :
                /\ \A i \in 1..Len(out.layers[k].pre) :
                      out.layers[k].pre[i].msg \in Allowed("pre")
                /\ \A i \in 1..Len(out.layers[k].post) :
                      out.layers[k].post[i].msg \in Allowed("post")

\* C8: the checks are emitted in the order the contracts are declared and,
\* inside one contract, in the order of its assertions, one check per
\* assertion: the conditions of the pre-checks of a synthesis are the
\* assertions of its Pre and Invariant contracts that are not resolved to
\* Disabled, in that order, and the same for the post-checks with Post and
\* Invariant.  The contracts of the synthesis are the declared ones, in
\* order, without those that pre of pre.rs has expanded before it.
C8_ChecksInDeclarationOrder ==
    (pipeline \in {"codegen", "mod"} /\ out.state = "expanded"
        /\ ~PendingOf(pipeline, out)) =>
        LET \* the expansions by pre of pre.rs, each a layer of its own
            g == Cardinality({k \in 1..Len(out.layers) :
                                out.layers[k].wrap = "block"})
            cs == SubSeq(out.contracts, g + 1, Len(out.contracts))
            Emits(c) == final_mode(c.mode) # "Disabled"
            Expected(pos) ==
                Flatten([k \in 1..Len(cs) |->
                    IF Emits(cs[k]) /\ (IF pos = "pre" THEN IsPreKind(cs[k])
                                                       ELSE IsPostKind(cs[k]))
                    THEN cs[k].assertions ELSE <<>>])
            Conds(stmts) ==
                LET ch == SelectSeq(stmts, IsCheck)
                IN  [i \in 1..Len(ch) |-> ch[i].exec]
            Written(a) ==
                LET it == a.args.items
                IN  IF it[Len(it)][1] = "str" THEN SubSeq(it, 1, Len(it) - 1) ELSE it
            IsDeclared(a) == a.name \notin {"doc", "inline"}
            all == SelectSeq(func.attrs, IsDeclared)
            declared_ == SubSeq(all, g + 1, Len(all))
        IN  /\ Len(out.layers) <= g + 1
            /\ Len(cs) = Len(declared_)
            /\ \A k \in 1..Len(cs) :
                  /\ cs[k].ty = contract_type_and_mode(declared_[k].name).ty
                  /\ cs[k].streams = Written(declared_[k])
            /\ (cs # <<>>) = (Len(out.layers) = g + 1)
            /\ cs # <<>> =>
                  /\ out.layers[1].wrap # "block"
                  /\ Conds(out.layers[1].pre) = Expected("pre")
                  /\ Conds(out.layers[1].post) = Expected("post")

\* An invariant and a pre-condition of two assertions each: four pre-checks
\* and two post-checks.
C8_Witness ==
    /\ pipeline = "codegen" /\ out.state = "expanded"
    /\ ~features.disable_contracts
    /\ Len(out.contracts) = 2
    /\ out.contracts[1].ty = "Invariant" /\ Len(out.contracts[1].assertions) = 2
    /\ out.contracts[2].ty = "Pre" /\ Len(out.contracts[2].assertions) = 2
    /\ Len(SelectSeq(out.layers[1].pre, IsCheck)) = 4
    /\ Len(SelectSeq(out.layers[1].post, IsCheck)) = 2

\* C9 as stated: every assertion of every Invariant contract yields exactly
\* one check among the pre-checks and exactly one among the post-checks,
\* with the same condition and the contract's resolved mode.
C9_InvariantInBothPositions ==
    (pipeline \in {"codegen", "lib"} /\ out.state = "expanded") =>
        LET cs == out.contracts
            Resolved(c) == final_mode(c.mode)
            ModeOf(st) ==
                IF st.log THEN "LogOnly"
                ELSE IF st.gate # "none" THEN "Test"
                ELSE IF st.macro \in {"assert", "checked_precondition",
                                      "checked_postcondition"} THEN "Always"
                ELSE IF st.macro \in {"debug_assert", "debug_checked_precondition",
                                      "debug_checked_postcondition"} THEN "Debug"
                ELSE "Disabled"
            \* the layer that holds the checks of contract k
            LayerOf(k) == IF pipeline = "lib" THEN Len(cs) + 1 - k ELSE 1
            \* the number of checks of that layer that precede those of k
            Before(k, pos) ==
                IF pipeline = "lib" THEN 0
                ELSE Len(Flatten([j \in 1..(k - 1) |->
                        IF Resolved(cs[j]) # "Disabled"
                           /\ (IF pos = "pre" THEN IsPreKind(cs[j])
                                              ELSE IsPostKind(cs[j]))
                        THEN cs[j].assertions ELSE <<>>]))
            Holds(k, pos) ==
                LET l == out.layers[LayerOf(k)]
                    ch == SelectSeq(IF pos = "pre" THEN l.pre ELSE l.post, IsCheck)
                    off == Before(k, pos)
                    n == Len(cs[k].assertions)
                IN  /\ Len(ch) >= off + n
                    /\ \A i \in 1..n :
                          /\ ch[off + i].exec = cs[k].assertions[i]
                          /\ ModeOf(ch[off + i]) = Resolved(cs[k])
            IsInv(c) == c.ty = "Invariant"
            IsInvAttr(a) == a.name \in {"invariant", "debug_invariant",
                                        "test_invariant"}
        IN  /\ pipeline = "codegen" =>
                  Len(SelectSeq(cs, IsInv)) = Len(SelectSeq(func.attrs, IsInvAttr))
            /\ \A k \in 1..Len(cs) :
                  cs[k].ty = "Invariant" => Holds(k, "pre") /\ Holds(k, "post")

\* C9, amended: an Invariant contract that is not resolved to Disabled
\* yields, for each of its assertions, exactly one check among the
\* pre-checks and exactly one among the post-checks, with the same condition
\* and the contract's resolved mode; one resolved to Disabled yields no
\* check in either position.
C9_EnabledInvariantInBothPositions ==
    (pipeline \in {"codegen", "lib"} /\ out.state = "expanded") =>
        LET cs == out.contracts
            Resolved(c) == final_mode(c.mode)
            ModeOf(st) ==
                IF st.log THEN "LogOnly"
                ELSE IF st.gate # "none" THEN "Test"
                ELSE IF st.macro \in {"assert", "checked_precondition",
                                      "checked_postcondition"} THEN "Always"
                ELSE IF st.macro \in {"debug_assert", "debug_checked_precondition",
                                      "debug_checked_postcondition"} THEN "Debug"
                ELSE "Disabled"
            LayerOf(k) == IF pipeline = "lib" THEN Len(cs) + 1 - k ELSE 1
            Share(k, pos) ==
                IF Resolved(cs[k]) # "Disabled"
                   /\ (IF pos = "pre" THEN IsPreKind(cs[k]) ELSE IsPostKind(cs[k]))
                THEN cs[k].assertions ELSE <<>>
            \* the contracts whose checks the layer of k holds
            InLayer(k) == IF pipeline = "lib" THEN {k} ELSE 1..Len(cs)
            Before(k, pos) ==
                Len(Flatten([j \in 1..(k - 1) |->
                        IF j \in InLayer(k) THEN Share(j, pos) ELSE <<>>]))
            Total(k, pos) ==
                Len(Flatten([j \in 1..Len(cs) |->
                        IF j \in InLayer(k) THEN Share(j, pos) ELSE <<>>]))
            Holds(k, pos) ==
                LET l == out.layers[LayerOf(k)]
                    ch == SelectSeq(IF pos = "pre" THEN l.pre ELSE l.post, IsCheck)
                    off == Before(k, pos)
                    n == Len(Share(k, pos))
                IN  /\ Len(ch) = Total(k, pos)
                    /\ \A i \in 1..n :
                          /\ ch[off + i].exec = cs[k].assertions[i]
                          /\ ModeOf(ch[off + i]) = Resolved(cs[k])
            IsInv(c) == c.ty = "Invariant"
            IsInvAttr(a) == a.name \in {"invariant", "debug_invariant",
                                        "test_invariant"}
        IN  /\ pipeline = "codegen" =>
                  Len(SelectSeq(cs, IsInv)) = Len(SelectSeq(func.attrs, IsInvAttr))
            /\ \A k \in 1..Len(cs) :
                  cs[k].ty = "Invariant" => Holds(k, "pre") /\ Holds(k, "post")

\* A pre-condition followed by an invariant of two assertions, enabled: the
\* invariant's two checks follow the pre-condition's among the pre-checks
\* and open the post-checks.
C9_Witness ==
    /\ pipeline = "codegen" /\ out.state = "expanded"
    /\ ~features.disable_contracts
    /\ Len(out.contracts) = 2
    /\ out.contracts[1].ty = "Pre" /\ Len(out.contracts[1].assertions) = 2
    /\ out.contracts[2].ty = "Invariant" /\ Len(out.contracts[2].assertions) = 2
    /\ Len(SelectSeq(out.layers[1].pre, IsCheck)) = 4
    /\ Len(SelectSeq(out.layers[1].post, IsCheck)) = 2
    /\ out.layers[1].pre[3].exec = out.layers[1].post[1].exec
    /\ out.layers[1].pre[4].exec = out.layers[1].post[2].exec

(***************************************************************************)
(* Properties of a call of the synthesized function, checked under Spec.   *)
(***************************************************************************)
\* C5: the phases of the synthesized body run in this order: all
\* pre-checks, all old bindings, the original body, all post-checks, the
\* final ret; each statement runs once, in the order of the new block; and
\* when a pre-check aborts, no old binding has been evaluated and nothing
\* of the original body has run.
C5_PhaseOrder ==
    (pipeline = "codegen" /\ out.state = "expanded"
        /\ pc \in {"running", "done", "panic"}) =>
        LET l == out.layers[1]
            n == Len(trace)
            Rank(ev) == CASE ev = "pre" -> 1
                          [] ev = "old" -> 2
                          [] ev = "body" -> 3
                          [] ev = "post" -> 4
                          [] ev = "yield" -> 5
            Count(ev) == Cardinality({i \in 1..n : trace[i].ev = ev})
        IN  /\ \A i \in 1..n : \A j \in i..n :
                  Rank(trace[i].ev) <= Rank(trace[j].ev)
            /\ \A i \in 1..n : trace[i].ip = i
            /\ pc = "done" =>
                  /\ Count("pre") = Len(l.pre)
                  /\ Count("old") = Len(l.olds)
                  /\ Count("body") = 1
                  /\ Count("post") = Len(l.post)
                  /\ Count("yield") = 1 /\ trace[n].ev = "yield"
            /\ (pc = "panic" /\ trace[n].ev = "pre") =>
                  /\ \A i \in 1..n : trace[i].ev = "pre"
                  /\ env = ("x" :> x0)

\* A pre-check aborts in a function that has an old binding: the trace
\* ends there and the binder is not bound.
C5_Witness ==
    /\ pipeline = "codegen" /\ out.state = "expanded" /\ pc = "panic"
    /\ trace # <<>> /\ trace[Len(trace)].ev = "pre"
    /\ trace[Len(trace)].how = "abort"
    /\ Len(out.layers[1].olds) >= 1
    /\ "__contract_old_0" \notin DOMAIN env

\* C6: a return anywhere in the original body, nested blocks included, does
\* not bypass the post-checks: whenever the body yields a value v, every
\* post-check runs with ret = v before the function yields v; a call that
\* completes satisfies every Always-mode post-check, a post-check aborts
\* only when its condition is false, and the abort of a post-condition
\* carries a message that starts with "Post-condition of <fn> violated".
C6_EarlyReturnRunsPostChecks ==
    (pipeline = "codegen" /\ out.state = "expanded" /\ pc \in {"done", "panic"}) =>
        LET l == out.layers[1]
            cs == out.contracts
            n == Len(trace)
            \* the original body on the argument of the call
            r == ExecBlock(func.body, "x" :> x0)
            PostEvents == {i \in 1..n : trace[i].ev = "post"}
            Always(st) ==
                st.gate = "none" /\ st.macro \in {"assert", "checked_postcondition"}
            Posts == {k \in 1..Len(cs) : cs[k].ty = "Post"}
            FromPost(st) ==
                \E k \in Posts : \E i \in 1..Len(cs[k].assertions) :
                    cs[k].assertions[i] = st.exec
            Tails ==
                UNION {{stringify(cs[k].streams[i]) : i \in 1..Len(cs[k].streams)}
                       \cup {cs[k].desc[j] \o ": " \o stringify(cs[k].streams[i]) :
                                i \in 1..Len(cs[k].streams),
                                j \in 1..Len(cs[k].desc)} : k \in Posts}
            Prefix == "Post-condition of " \o out.name \o " violated"
        IN  /\ pc = "done" =>
                  /\ Cardinality(PostEvents) = Len(l.post)
                  /\ env["ret"] = r.val /\ result = r.val
                  /\ \A i \in 1..Len(l.post) :
                        Always(l.post[i]) => EvalExpr(l.post[i].exec, env)
            /\ (pc = "panic" /\ trace[n].ev = "post") =>
                  LET st == Program(out)[trace[n].ip].arg
                  IN  /\ env["ret"] = r.val
                      /\ ~EvalExpr(st.exec, env)
                      /\ panic = st.msg
                      /\ FromPost(st) => panic \in {Prefix \o ": " \o t : t \in Tails}

\* The body returns from inside two nested blocks with a value that breaks
\* a post-condition: the call aborts with the post-condition's message.
C6_Witness ==
    /\ pipeline = "codegen" /\ out.state = "expanded" /\ pc = "panic"
    /\ func.body = BodyNested /\ x0 = 2
    /\ ExecBlock(func.body, "x" :> x0).kind = "return"
    /\ trace[Len(trace)].ev = "post"
    /\ panic = "Post-condition of f violated: in range: ret >= 1"

\* C10: for every post-condition with exactly one old(e) call the synthesis
\* makes exactly one binding of e, evaluated before the original body runs;
\* the post-check (emitted unless the contract is resolved to Disabled) is
\* the condition with the call replaced by the binder, no post-check holds
\* an old(..) call, and the value read through the binder is the value of
\* e at function entry even when the body changes what e reads.
C10_OldBoundAtEntry ==
    (pipeline = "codegen" /\ out.state = "expanded") =>
        LET cs == out.contracts
            l == out.layers[1]
            \* The places where `new` differs from `orig`: <<binder, e>> where
            \* old(e) became the path binder, <<"?", .. >> for anything else.
            RECURSIVE Diff(_, _)
            Diff(orig, new) ==
                IF orig = new THEN {}
                ELSE IF orig[1] = "call" /\ new[1] = "path"
                        /\ orig[2] = Path("old") /\ Len(orig[3]) = 1
                     THEN {<<new[2], orig[3][1]>>}
                ELSE IF orig[1] = "bin" /\ new[1] = "bin" /\ orig[2] = new[2]
                     THEN Diff(orig[3], new[3]) \cup Diff(orig[4], new[4])
                ELSE {<<"?", orig>>}
            RECURSIVE Calls(_)
            Calls(e) ==
                CASE e[1] = "bin" -> Calls(e[3]) + Calls(e[4])
                  [] e[1] = "call" -> 1
                  [] OTHER -> 0
            BodyRan == \E i \in 1..Len(trace) : trace[i].ev = "body"
        IN  \A k \in 1..Len(cs) : \A i \in 1..Len(cs[k].streams) :
                (cs[k].ty = "Post" /\ Calls(cs[k].streams[i]) = 1) =>
                    /\ Calls(cs[k].assertions[i]) = 0
                    /\ \E d \in Diff(cs[k].streams[i], cs[k].assertions[i]) :
                          /\ Diff(cs[k].streams[i], cs[k].assertions[i]) = {d}
                          /\ Cardinality({j \in 1..Len(l.olds) :
                                             l.olds[j].name = d[1]}) = 1
                          /\ \A j \in 1..Len(l.olds) :
                                l.olds[j].name = d[1] => l.olds[j].expr = d[2]
                          /\ final_mode(cs[k].mode) # "Disabled" =>
                                \E j \in 1..Len(l.post) :
                                    /\ IsCheck(l.post[j])
                                    /\ l.post[j].exec = cs[k].assertions[i]
                          /\ \A j \in 1..Len(l.post) : Calls(l.post[j].exec) = 0
                          /\ BodyRan =>
                                /\ d[1] \in DOMAIN env
                                /\ env[d[1]] = EvalExpr(d[2], "x" :> x0)

\* A call that completes after the body has changed x: the binder of
\* old(x) still holds the x of the entry, and ret == old(x) + 1 was checked
\* against it.
C10_Witness ==
    /\ pipeline = "codegen" /\ out.state = "expanded" /\ pc = "done"
    /\ \E k \in 1..Len(out.contracts) : out.contracts[k].streams = <<RetOld>>
    /\ Len(out.layers[1].olds) = 1
    /\ \E j \in 1..Len(out.layers[1].post) :
          /\ out.layers[1].post[j].macro = "assert"
          /\ out.layers[1].post[j].exec =
                Bin("==", Path("ret"), Bin("+", Path("__contract_old_0"), IntLit(1)))
    /\ env["x"] # x0
    /\ env["__contract_old_0"] = x0
    /\ result = x0 + 1

(***************************************************************************)
(* Properties of the extraction of old() calls, checked under SpecGen.     *)
(***************************************************************************)
\* C11 as stated: after extraction no well-formed old(e) call is left in
\* any assertion of a Post or of an Invariant contract, and the assertions
\* of a Pre contract are unchanged.
C11_PostAndInvariantExtracted ==
    (pipeline = "codegen" /\ out.state = "expanded") =>
        LET cs == out.contracts
            RECURSIVE Olds(_)
            RECURSIVE OldsIn(_)
            \* the number of one-argument old(..) calls of an expression
            Olds(e) ==
                CASE e[1] = "bin" -> Olds(e[3]) + Olds(e[4])
                  [] e[1] = "call" ->
                        (IF e[2] = Path("old") /\ Len(e[3]) = 1 THEN 1 ELSE 0)
                            + Olds(e[2]) + OldsIn(e[3])
                  [] OTHER -> 0
            OldsIn(es) == IF es = <<>> THEN 0 ELSE Olds(Head(es)) + OldsIn(Tail(es))
        IN  \A k \in 1..Len(cs) :
                /\ cs[k].ty \in {"Post", "Invariant"} => OldsIn(cs[k].assertions) = 0
                /\ cs[k].ty = "Pre" => cs[k].assertions = cs[k].streams

\* C11, amended: extraction visits every sub-expression of every assertion
\* of every Post contract and no assertion of a Pre or of an Invariant
\* contract: afterwards no well-formed old(e) call is left in a Post
\* assertion, one binding exists for each such call, and the assertions of
\* the Pre and Invariant contracts are unchanged, old(..) calls included.
C11_OnlyPostExtracted ==
    (pipeline = "codegen" /\ out.state = "expanded") =>
        LET cs == out.contracts
            RECURSIVE Olds(_)
            RECURSIVE OldsIn(_)
            Olds(e) ==
                CASE e[1] = "bin" -> Olds(e[3]) + Olds(e[4])
                  [] e[1] = "call" ->
                        (IF e[2] = Path("old") /\ Len(e[3]) = 1 THEN 1 ELSE 0)
                            + Olds(e[2]) + OldsIn(e[3])
                  [] OTHER -> 0
            OldsIn(es) == IF es = <<>> THEN 0 ELSE Olds(Head(es)) + OldsIn(Tail(es))
            RECURSIVE Written(_)
            \* the well-formed old calls the Post contracts from k on are
            \* written with
            Written(k) ==
                IF k > Len(cs) THEN 0
                ELSE (IF cs[k].ty = "Post" THEN OldsIn(cs[k].streams) ELSE 0)
                        + Written(k + 1)
        IN  /\ \A k \in 1..Len(cs) :
                  /\ cs[k].ty = "Post" => OldsIn(cs[k].assertions) = 0
                  /\ cs[k].ty \in {"Pre", "Invariant"} =>
                        cs[k].assertions = cs[k].streams
            /\ Len(out.layers[1].olds) = Written(1)

\* A post-condition with nested old() calls next to an invariant written
\* with old(x): three bindings for the post-condition, and the invariant's
\* check still calls old.
C11_Witness ==
    /\ pipeline = "codegen" /\ out.state = "expanded"
    /\ Len(out.contracts) = 2
    /\ out.contracts[1].ty = "Post" /\ out.contracts[1].streams = <<GOld>>
    /\ out.contracts[1].assertions =
          << Bin(">=",
                 ExprCall(Path("g"),
                          <<Path("__contract_old_1"),
                            ExprCall(Path("old"),
                                     <<Path("__contract_old_2"), IntLit(1)>>)>>),
                 IntLit(0)) >>
    /\ Len(out.layers[1].olds) = 3
    /\ out.contracts[2].ty = "Invariant"
    /\ out.contracts[2].assertions = <<XGeOld>>

(***************************************************************************)
(* Properties of the modes at run time, checked under Spec.                *)
(***************************************************************************)
\* C12: a violated LogOnly check never aborts: it records exactly one
\* diagnostic, its message, and the call goes on with the remaining checks
\* and the body; the call yields the result the body yields without any
\* contract.
C12_LogOnlyNeverAborts ==
    (pipeline \in {"codegen", "lib"} /\ out.state = "expanded"
        /\ pc \in {"running", "done", "panic"}) =>
        LET prog == Program(out)
            n == Len(trace)
            \* the state a check of the trace has read
            EnvAt(i) == IF trace[i].ev = "pre" THEN ("x" :> x0) ELSE env
            Violated(i) ==
                /\ prog[i].op = "check" /\ prog[i].arg.log
                /\ ~EvalExpr(prog[i].arg.exec, EnvAt(i))
            idx == SelectSeq([i \in 1..n |-> i], Violated)
            r == ExecBlock(func.body, "x" :> x0)
        IN  /\ \A i \in 1..n : trace[i].ip = i
            /\ logged = [j \in 1..Len(idx) |-> prog[idx[j]].arg.msg]
            /\ \A i \in 1..n : Violated(i) =>
                  /\ trace[i].how = "eval"
                  /\ i = n => (pc = "running" /\ ip = n + 1)
            /\ (pc = "panic") => ~prog[n].arg.log
            /\ pc = "done" => result = r.val /\ env["x"] = r.env["x"]

\* With override_log a call breaks the pre-condition and, after the body,
\* the invariant: both are logged, and the call yields the body's value.
C12_Witness ==
    /\ pipeline = "codegen" /\ out.state = "expanded" /\ pc = "done"
    /\ features.override_log /\ ~features.mirai_assertions
    /\ func.body = BodyInc /\ x0 = 2 /\ result = 3
    /\ Len(logged) >= 2
    /\ logged[1] = "Pre-condition of f violated: x <= 1"
    /\ logged[Len(logged)] = "Invariant (as post-condition) of f violated: x <= 2"

\* C13: a Test-mode contract is enabled exactly in test builds: in a test
\* build its check tests the condition and a false condition aborts with
\* the check's message, whether or not debug assertions are on; in any
\* other build the check does nothing.
C13_TestModeFollowsTestBuild ==
    (out.state = "expanded" /\ pc \in {"running", "done", "panic"}) =>
        LET prog == Program(out)
            n == Len(trace)
            EnvAt(i) == IF trace[i].ev = "pre" THEN ("x" :> x0) ELSE env
        IN  \A i \in 1..n :
                (prog[i].op = "check" /\ prog[i].arg.gate # "none") =>
                    IF build.test
                    THEN IF EvalExpr(prog[i].arg.exec, EnvAt(i))
                         THEN trace[i].how # "abort"
                         ELSE /\ trace[i].how = "abort"
                              /\ pc = "panic" /\ panic = prog[i].arg.msg
                    ELSE trace[i].how = "skip"

(***************************************************************************)
(* Properties of trait propagation, checked under SpecTrait.               *)
(***************************************************************************)
\* C14: when the trait and the impl block are both transformed, a call of a
\* method by its public name enters the wrapper of the trait.  A call of m
\* that violates its pre-condition x <= 1 aborts with the message of the
\* pre-condition before any body runs; otherwise every pre-check is tested,
\* the call is forwarded with the caller's arguments to the internal method,
\* which is the one of the impl block when the block defines it.  A
\* forwarded call that does not return aborted on a check the internal
\* method carries itself, and a call that returns has tested every
\* post-check and yields what that body yields.
C14_PublicCallIsChecked ==
    (trait_.marked /\ impl_.marked /\ callee # NoCallee) =>
        LET prog == Program(out)
            ran == \E i \in 1..Len(trace) : trace[i].ev = "body"
            returned == \E i \in 1..Len(trace) :
                            trace[i].ev = "body" /\ trace[i].how = "run"
            target == Dispatch(trait_, impl_, "__contracts_impl_" \o out.name)
            \* the checks the entered method carries itself
            own == Program(target.method.code[1])
            Tested(phase) ==
                \A i \in 1..Len(prog) :
                    (prog[i].op = "check" /\ prog[i].phase = phase) =>
                        i <= Len(trace) /\ trace[i].how = "eval"
        IN  /\ pc \in {"running", "done", "panic"}
            /\ out.name \notin InternalNames
            /\ IsForward(out.body)
            /\ out.name = "m" =>
                  \E i \in 1..Len(prog) :
                      /\ prog[i].op = "check" /\ prog[i].phase = "pre"
                      /\ prog[i].arg.exec = XLe1
            /\ (out.name = "m" /\ x0 > 1) =>
                  /\ ~ran /\ pc # "done"
                  /\ pc = "panic" =>
                        panic \in {"Pre-condition of m violated: x <= 1",
                                   "Pre-condition of m violated: in range: x <= 1"}
            /\ x0 <= 1 => ~(pc = "panic" /\ prog[ip].phase = "pre")
            /\ ran =>
                  /\ Tested("pre")
                  /\ callee.name = "__contracts_impl_" \o out.name
                  /\ callee.unit = target.unit
                  /\ callee.unit = "impl" <=> Named(impl_, callee.name) # <<>>
                  /\ callee.env["x"] = x0
            /\ returned =>
                  env["ret"] = ExecBlock(target.method.default[1], callee.env).val
            /\ (ran /\ ~returned) =>
                  /\ pc = "panic"
                  /\ \E i \in 1..Len(own) :
                        own[i].op = "check" /\ own[i].arg.msg = panic
            /\ pc = "done" =>
                  /\ returned /\ Tested("post")
                  /\ result = env["ret"]

\* A call through the wrapper that has run the body of the impl block and
\* returned, under a pre- and a post-condition.
C14_Witness ==
    /\ trait_.marked /\ impl_.marked /\ pc = "done"
    /\ callee.unit = "impl" /\ Len(out.contracts) = 2
    /\ result = 2

\* C15: transforming a trait replaces every method m by exactly two
\* declarations, the internal one immediately followed by the wrapper.  The
\* internal one is named __contracts_impl_m, carries none of the attributes
\* of m and is hidden and always inlined; the wrapper has the name and
\* exactly the attributes of m.
C15_InternalThenWrapper ==
    [][ (trait_.state = "source" /\ trait_'.state = "expanded") =>
            LET old == SelectSeq(trait_.items, IsMethod)
                new == trait_'.items
                first == Len(new) - 2 * Len(old)
                Has(item, a) == \E k \in 1..Len(item.attrs) : item.attrs[k] = a
            IN  /\ Len(SelectSeq(new, IsMethod)) = 2 * Len(old)
                /\ \A i \in 1..Len(old) :
                      LET internal == new[first + 2 * i - 1]
                          wrapper == new[first + 2 * i]
                      IN  /\ IsMethod(internal) /\ IsMethod(wrapper)
                          /\ internal.name = "__contracts_impl_" \o old[i].name
                          /\ \A k \in 1..Len(old[i].attrs) :
                                ~Has(internal, old[i].attrs[k])
                          /\ Has(internal, Attr("doc", <<Path("hidden")>>, FALSE))
                          /\ Has(internal, Attr("inline", <<Path("always")>>, FALSE))
                          /\ wrapper.name = old[i].name
                          /\ wrapper.attrs = old[i].attrs
      ]_vars

\* A transformed trait of two methods, one of them with three attributes.
C15_Witness ==
    /\ trait_.state = "expanded"
    /\ Len(SelectSeq(trait_.items, IsMethod)) = 4
    /\ \E i \in 1..Len(trait_.items) :
          trait_.items[i].name = "m" /\ Len(trait_.items[i].attrs) = 3

\* C16: transforming an impl block renames every method m to
\* __contracts_impl_m, the name the trait transformation gives the internal
\* method of m, and changes nothing else: attributes, parameters and body of
\* each method, the items that are no methods and the order of the items
\* stay as they are.
C16_ImplRenamesOnly ==
    [][ (impl_.state = "source" /\ impl_'.state = "expanded") =>
            /\ Len(impl_'.items) = Len(impl_.items)
            /\ \A i \in 1..Len(impl_.items) :
                  IF IsMethod(impl_.items[i])
                  THEN /\ impl_'.items[i] =
                            [impl_.items[i] EXCEPT
                                !.name = "__contracts_impl_" \o impl_.items[i].name]
                       /\ trait_.state = "expanded" =>
                            \E j \in 1..Len(trait_.items) :
                                /\ trait_.items[j].name = impl_'.items[i].name
                                /\ trait_.items[j + 1].name = impl_.items[i].name
                  ELSE impl_'.items[i] = impl_.items[i]
      ]_vars

\* A transformed impl block of a constant and two methods with an attribute,
\* next to the transformed trait.
C16_Witness ==
    /\ impl_.state = "expanded" /\ trait_.state = "expanded"
    /\ Len(impl_.items) = 3
    /\ Len(SelectSeq(impl_.items, IsMethod)) = 2
    /\ \E i \in 1..Len(impl_.items) :
          IsMethod(impl_.items[i]) /\ impl_.items[i].attrs = <<InlineAttr>>

\* C17: the body of the wrapper of m is the one call
\* Self::__contracts_impl_m(..) whose arguments are the parameters of m, each
\* once and in declaration order: self for a receiver, the name for an
\* identifier pattern, and for a tuple pattern the tuple of what its
\* elements forward, recursively.  The expansion succeeds when every pattern
\* is of these kinds and stops with a panic when one is of another kind.
C17_ForwardsEveryParameter ==
    (trait_.marked /\ trait_.state # "source") =>
        LET RECURSIVE Supported(_)
            Supported(pat) ==
                CASE pat[1] \in {"self", "ident"} -> TRUE
                  [] pat[1] = "tuple" ->
                        \A i \in 1..Len(pat[2]) : Supported(pat[2][i])
                  [] OTHER -> FALSE
            RECURSIVE Forwarded(_)
            Forwarded(pat) ==
                CASE pat[1] = "self" -> Path("self")
                  [] pat[1] = "ident" -> Path(pat[2])
                  [] pat[1] = "tuple" ->
                        <<"tuple", [i \in 1..Len(pat[2]) |-> Forwarded(pat[2][i])]>>
            methods == SelectSeq(trait_.items, IsMethod)
            AllSupported ==
                \A k \in 1..Len(methods) : \A i \in 1..Len(methods[k].inputs) :
                    Supported(methods[k].inputs[i])
        IN  IF ~AllSupported THEN trait_.state = "panic"
            ELSE /\ trait_.state = "expanded"
                 /\ \A k \in 1..Len(methods) :
                       methods[k].name \notin InternalNames =>
                           methods[k].default =
                               << << <<"forward",
                                       "__contracts_impl_" \o methods[k].name,
                                       [i \in 1..Len(methods[k].inputs) |->
                                           Forwarded(methods[k].inputs[i])]>> >> >>

\* C18: a trait and an impl block of which exactly one is transformed are
\* never accepted, so whenever the body of an impl block is entered for a
\* call of a method of a transformed trait, the checks of the trait's
\* method have been tested before.
C18_OneSidedIsRejected ==
    /\ (trait_.marked # impl_.marked) => pc \in {"unit", "rejected"}
    /\ (trait_.marked /\ callee.unit = "impl") =>
          LET wrapper == Named(trait_, func.name)[1].code[1]
              prog == Program(wrapper)
          IN  /\ callee.name = "__contracts_impl_" \o func.name
              /\ \A i \in 1..Len(prog) :
                    (prog[i].op = "check" /\ prog[i].phase = "pre") =>
                        i <= Len(trace) /\ trace[i].ev = "pre"

(***************************************************************************)
(* Properties of invariants on impl blocks, checked under SpecImpl.        *)
(***************************************************************************)
\* C19: expanding an invariant on an impl block puts, in front of the
\* attributes of every method whose first parameter is a receiver, one
\* invariant attribute of the crate with the arguments of the block's
\* attribute (conditions and description), and leaves every other item as
\* it is.
C19_InvariantOnReceiverMethods ==
    [][ (impl_.state = "source" /\ impl_'.state = "expanded") =>
            /\ Len(impl_'.items) = Len(impl_.items)
            /\ \A i \in 1..Len(impl_.items) :
                  LET before == impl_.items[i]
                      after == impl_'.items[i]
                  IN  IF IsMethod(before) /\ before.inputs # <<>>
                            /\ before.inputs[1] = <<"self">>
                      THEN /\ Len(after.attrs) = Len(before.attrs) + 1
                           /\ after = [before EXCEPT !.attrs =
                                          <<after.attrs[1]>> \o before.attrs]
                           /\ after.attrs[1].args = impl_.attrs[1].args
                           /\ after.attrs[1].name \in
                                 {"invariant", "debug_invariant",
                                  "test_invariant", "__impl_log_invariant"}
                      ELSE after = before
      ]_vars

\* C20: in a build in which the invariant of the block aborts, a call of a
\* method with a receiver tests every condition of the invariant exactly
\* twice, once before the body and once after it.  The call aborts before
\* the body when it enters with the invariant false, it never returns with
\* the invariant false, and an invariant check aborts only when the
\* invariant is false at entry or at the end of the body, whatever the body
\* did to the field in between.
C20_InvariantAtEntryAndExit ==
    (trait_ = NoUnit /\ pc \in {"done", "panic"} /\ callee.name \in {"get", "put"}) =>
        LET prog == Program(out)
            n == Len(trace)
            IsInv(st) ==
                \E k \in 1..Len(out.contracts) :
                    /\ out.contracts[k].ty = "Invariant"
                    /\ \E j \in 1..Len(out.contracts[k].assertions) :
                          out.contracts[k].assertions[j] = st.exec
            InvIdx == {i \in 1..Len(prog) : prog[i].op = "check" /\ IsInv(prog[i].arg)}
            Live(st) == Aborting(st.macro) /\ (st.gate = "none" \/ build.test)
            conds == {prog[i].arg.exec : i \in InvIdx}
            Holds(v) == \A e \in conds : EvalExpr(e, "x" :> v)
            body == CHOOSE i \in 1..Len(prog) : prog[i].op = "body"
            exit == ExecBlock(func.body, "x" :> x0).env["x"]
            Tests(e, from, to) ==
                {i \in InvIdx : /\ from <= i /\ i <= to /\ i <= n
                                /\ prog[i].arg.exec = e
                                /\ trace[i].how = "eval"}
        IN  (\E i \in InvIdx : Live(prog[i].arg)) =>
                /\ ~Holds(x0) =>
                      /\ pc = "panic" /\ n < body
                      /\ trace[n].ip \in InvIdx
                /\ pc = "done" =>
                      /\ Holds(exit)
                      /\ \A e \in conds :
                            /\ Cardinality(Tests(e, 1, body - 1)) = 1
                            /\ Cardinality(Tests(e, body + 1, Len(prog))) = 1
                /\ (pc = "panic" /\ trace[n].ip \in InvIdx) =>
                      IF n < body THEN ~Holds(x0) ELSE ~Holds(exit)

(***************************************************************************)
(* Properties of the binders of old(), checked under SpecImpl, where rustc *)
(* expands the methods of a block one after the other.                     *)
(***************************************************************************)
\* C21: the binder counter is per function: whatever was expanded before,
\* the k-th old() call extracted for a function is bound to
\* __contract_old_<k-1>, so the ids of a function are 0..n-1 with n the
\* number of its old() calls, and two functions with the same
\* post-conditions get the same bindings and the same rewritten conditions.
C21_BinderCounterPerFunction ==
    pipeline = "codegen" =>
        LET RECURSIVE Olds(_)
            RECURSIVE OldsIn(_)
            \* the number of one-argument old(..) calls of an expression
            Olds(e) ==
                CASE e[1] = "bin" -> Olds(e[3]) + Olds(e[4])
                  [] e[1] = "call" ->
                        (IF e[2] = Path("old") /\ Len(e[3]) = 1 THEN 1 ELSE 0)
                            + Olds(e[2]) + OldsIn(e[3])
                  [] OTHER -> 0
            OldsIn(es) == IF es = <<>> THEN 0 ELSE Olds(Head(es)) + OldsIn(Tail(es))
            IsPost(c) == c.ty = "Post"
            Posts(f) == SelectSeq(f.contracts, IsPost)
            Written(f) == Flatten([k \in 1..Len(Posts(f)) |-> Posts(f)[k].streams])
            Rewritten(f) == Flatten([k \in 1..Len(Posts(f)) |-> Posts(f)[k].assertions])
            Done == {i \in 1..Len(impl_.items) :
                        /\ impl_.items[i].code # <<>>
                        /\ impl_.items[i].code[1].state = "expanded"}
            F(i) == impl_.items[i].code[1]
        IN  /\ \A i \in Done :
                  /\ Len(F(i).layers[1].olds) = OldsIn(Written(F(i)))
                  /\ \A k \in 1..Len(F(i).layers[1].olds) :
                        F(i).layers[1].olds[k].name
                            = "__contract_old_" \o ToString(k - 1)
            /\ \A i, j \in Done :
                  Written(F(i)) = Written(F(j)) =>
                      /\ F(i).layers[1].olds = F(j).layers[1].olds
                      /\ Rewritten(F(i)) = Rewritten(F(j))

\* The constructor, get and the third method are expanded in this order:
\* the first two are written with one old() each and both bind
\* __contract_old_0, the third binds __contract_old_0 and __contract_old_1.
C21_Witness ==
    /\ pipeline = "codegen" /\ Len(impl_.items) = 3
    /\ \A i \in 1..3 : /\ impl_.items[i].code # <<>>
                        /\ impl_.items[i].code[1].state = "expanded"
    /\ \A i \in 1..2 :
          /\ Len(impl_.items[i].code[1].layers[1].olds) = 1
          /\ impl_.items[i].code[1].layers[1].olds[1]
                = OldExpr("__contract_old_0", Path("x"))
    /\ impl_.items[3].code[1].layers[1].olds
          = << OldExpr("__contract_old_0", Path("x")),
               OldExpr("__contract_old_1", Path("x")) >>

(***************************************************************************)
(* Properties of the implication operator, checked under SpecImplies.      *)
(***************************************************************************)
\* C22: the implication rewrite is right-associative and keeps the
\* meaning: the rewritten condition has, for all values of A, B and C, the
\* value of the condition read with ==> binding loosest and to the right;
\* A ==> B becomes !A || B; A ==> B ==> C becomes !A || (!B || C), which is
\* false exactly when A and B are true and C is false, and which is not
\* the left-associative reading (A ==> B) ==> C.
C22_ImplicationIsRightAssociative ==
    (parsed.state = "ok" /\ Len(parsed.exprs) = 1 /\ toks.items # <<>>
        /\ toks.items[1][1] \in {"id", "op", "group"}) =>
        LET A == <<"id", "A">>
            B == <<"id", "B">>
            C == <<"id", "C">>
            e == parsed.exprs[1]
            Vals == [{"A", "B", "C"} -> BOOLEAN]
            RECURSIVE Val(_, _)
            Val(x, v) ==
                CASE x[1] = "path" -> v[x[2]]
                  [] x[1] = "not" -> ~Val(x[2], v)
                  [] x[1] = "paren" -> Val(x[2], v)
                  [] x[1] = "bin" -> Val(x[3], v) \/ Val(x[4], v)
            RECURSIVE Strip(_)
            Strip(x) ==
                CASE x[1] = "not" -> <<"not", Strip(x[2])>>
                  [] x[1] = "paren" -> Strip(x[2])
                  [] x[1] = "bin" -> Bin(x[2], Strip(x[3]), Strip(x[4]))
                  [] OTHER -> x
            Where(ts, t) ==
                LET Is(i) == ts[i] = t
                IN  SelectSeq([i \in 1..Len(ts) |-> i], Is)
            \* the meaning of a run of tokens
            RECURSIVE Ref(_, _)
            RECURSIVE Or(_, _)
            RECURSIVE Un(_, _)
            Ref(ts, v) ==
                LET at == Where(ts, Implies)
                IN  IF at = <<>> THEN Or(ts, v)
                    ELSE Or(SubSeq(ts, 1, at[1] - 1), v)
                            => Ref(SubSeq(ts, at[1] + 1, Len(ts)), v)
            Or(ts, v) ==
                LET at == Where(ts, <<"op", "||">>)
                IN  IF at = <<>> THEN Un(ts, v)
                    ELSE Un(SubSeq(ts, 1, at[1] - 1), v)
                            \/ Or(SubSeq(ts, at[1] + 1, Len(ts)), v)
            Un(ts, v) ==
                CASE ts[1] = <<"op", "!">> -> ~Un(Tail(ts), v)
                  [] ts[1][1] = "id" -> v[ts[1][2]]
                  [] ts[1][1] = "group" -> Ref(ts[1][2], v)
        IN  /\ \A v \in Vals : Val(e, v) = Ref(toks.items, v)
            /\ toks.items = <<A, Implies, B>> =>
                  Strip(e) = Bin("||", <<"not", Path("A")>>, Path("B"))
            /\ toks.items = <<A, Implies, B, Implies, C>> =>
                  /\ Strip(e) = Bin("||", <<"not", Path("A")>>,
                                    Bin("||", <<"not", Path("B")>>, Path("C")))
                  /\ \A v \in Vals :
                        ~Val(e, v) <=> (v["A"] /\ v["B"] /\ ~v["C"])
                  /\ \E v \in Vals :
                        Val(e, v) # ((v["A"] => v["B"]) => v["C"])

\* A ==> B ==> C, rewritten and read as !(A) || (!(B) || (C)).
C22_Witness ==
    /\ parsed.state = "ok"
    /\ toks.items = << <<"id", "A">>, Implies, <<"id", "B">>, Implies,
                       <<"id", "C">> >>
    /\ parsed.exprs =
          << Bin("||", <<"not", <<"paren", Path("A")>> >>,
                 <<"paren", Bin("||", <<"not", <<"paren", Path("B")>> >>,
                                <<"paren", Path("C")>>)>>) >>

\* C23: the binders of a function are unique within its synthesized body
\* and none of them is a name the function declares as a parameter or
\* assigns in its body, so that no binding shadows a variable of the user.
C23_BindersNeverCollide ==
    pipeline = "codegen" =>
        \A i \in 1..Len(impl_.items) :
            (impl_.items[i].code # <<>>
                /\ impl_.items[i].code[1].state = "expanded") =>
                LET m == impl_.items[i]
                    olds == m.code[1].layers[1].olds
                    RECURSIVE Assigned(_)
                    Assigned(b) ==
                        UNION { CASE b[k][1] = "assign" -> {b[k][2]}
                                  [] b[k][1] = "if" -> Assigned(b[k][3])
                                  [] OTHER -> {} : k \in 1..Len(b) }
                    declared_names ==
                        UNION {pat_names(m.inputs[k]) : k \in 1..Len(m.inputs)}
                            \cup Assigned(m.default[1])
                IN  /\ Cardinality(Binders(olds)) = Len(olds)
                    /\ Binders(olds) \cap declared_names = {}

(***************************************************************************)
(* Properties of nested old() calls, checked under SpecGen.                *)
(***************************************************************************)
\* C24: nested old() calls resolve inside-out.  The bindings are emitted
\* in ascending order of their ids; the expression of a binding holds no
\* old() call, a binder in the place of every old() call its argument was
\* written with, and only binders of smaller ids; putting the captured
\* expressions back for the binders gives the post-conditions as written.
C24_NestedOldInsideOut ==
    (pipeline = "codegen" /\ out.state = "expanded") =>
        LET olds == out.layers[1].olds
            n == Len(olds)
            Name(id) == "__contract_old_" \o ToString(id)
            Ids == 0..(n - 1)
            IdOf(name) == CHOOSE id \in Ids : Name(id) = name
            Bound(id) == CHOOSE b \in {olds[i] : i \in 1..n} : b.name = Name(id)
            RECURSIVE Refs(_)
            RECURSIVE RefsIn(_)
            \* the ids of the binders an expression reads
            Refs(e) ==
                CASE e[1] = "path" -> {id \in Ids : Name(id) = e[2]}
                  [] e[1] = "bin" -> Refs(e[3]) \cup Refs(e[4])
                  [] e[1] = "call" -> Refs(e[2]) \cup RefsIn(e[3])
                  [] OTHER -> {}
            RefsIn(es) == UNION {Refs(es[i]) : i \in 1..Len(es)}
            RECURSIVE Olds(_)
            RECURSIVE OldsIn(_)
            Olds(e) ==
                CASE e[1] = "bin" -> Olds(e[3]) + Olds(e[4])
                  [] e[1] = "call" ->
                        (IF e[2] = Path("old") /\ Len(e[3]) = 1 THEN 1 ELSE 0)
                            + Olds(e[2]) + OldsIn(e[3])
                  [] OTHER -> 0
            OldsIn(es) == IF es = <<>> THEN 0 ELSE Olds(Head(es)) + OldsIn(Tail(es))
            RECURSIVE Unfold(_)
            \* the expression with old(captured expression) for each binder
            Unfold(e) ==
                CASE e[1] = "path" ->
                        IF Refs(e) = {} THEN e
                        ELSE OldCall(Unfold(Bound(IdOf(e[2])).expr))
                  [] e[1] = "bin" -> Bin(e[2], Unfold(e[3]), Unfold(e[4]))
                  [] e[1] = "call" ->
                        ExprCall(Unfold(e[2]),
                                 [i \in 1..Len(e[3]) |-> Unfold(e[3][i])])
                  [] OTHER -> e
        IN  /\ \A i \in 1..n : olds[i].name = Name(i - 1)
            /\ \A i \in 1..n :
                  /\ Olds(olds[i].expr) = 0
                  /\ \A id \in Refs(olds[i].expr) : id < i - 1
            /\ \A k \in 1..Len(out.contracts) :
                  out.contracts[k].ty = "Post" =>
                      \A i \in 1..Len(out.contracts[k].assertions) :
                          Unfold(out.contracts[k].assertions[i])
                              = out.contracts[k].streams[i]

\* ret >= old(x - old(x)): the inner call is bound first, as
\* __contract_old_0, and the outer binding captures x - __contract_old_0.
C24_Witness ==
    /\ pipeline = "codegen" /\ out.state = "expanded"
    /\ out.layers[1].olds =
          << OldExpr("__contract_old_0", Path("x")),
             OldExpr("__contract_old_1",
                     Bin("-", Path("x"), Path("__contract_old_0"))) >>
    /\ \E k \in 1..Len(out.contracts) :
          out.contracts[k].assertions
              = <<Bin(">=", Path("ret"), Path("__contract_old_1"))>>

(***************************************************************************)
(* Properties of the translation of returns, checked under Spec.           *)
(***************************************************************************)
\* C25: only the returns that leave the annotated function are translated.
\* A closure of the body is expanded as written, its returns included, the
\* expanded function is valid code, and a call that returns has got from
\* the closure what the closure of the original body yields.
C25_ClosureReturnIsKept ==
    (pipeline = "codegen" /\ out.state = "expanded") =>
        LET RECURSIVE Closures(_)
            \* the closures of a block, in order
            Closures(block) ==
                Flatten([i \in 1..Len(block) |->
                    CASE block[i][1] = "closure" -> <<block[i]>>
                      [] block[i][1] = "if" -> Closures(block[i][3])
                      [] OTHER -> <<>>])
            r == ExecBlock(func.body, "x" :> x0)
        IN  /\ Closures(out.body) = Closures(func.body)
            /\ pc # "rejected"
            /\ (pc = "done" /\ Closures(func.body) # <<>>) =>
                  /\ "y" \in DOMAIN env /\ env["y"] = r.env["y"]
                  /\ result = r.val

\* C27: the expansion preserves what the function does when no check
\* fails.  The expanded function is valid code whenever it is with the
\* original body in the place of the translated one; a call that completes
\* yields the value the original body yields on the same argument and
\* leaves the variables of the original body with the values the original
\* body leaves, whether the body ran to its end or returned early; and a
\* call ends otherwise only in a check that evaluated to false.
C27_SemanticsPreserved ==
    (out.state = "expanded" /\ ~PendingOf(pipeline, out)) =>
        LET r == ExecBlock(func.body, "x" :> x0)
        IN  /\ pc = "rejected" => ~Compiles([out EXCEPT !.body = func.body])
            /\ pc = "done" =>
                  /\ result = r.val
                  /\ \A v \in DOMAIN r.env : v \in DOMAIN env /\ env[v] = r.env[v]
            /\ pc = "panic" =>
                  /\ trace[Len(trace)].how = "abort"
                  /\ ~EvalExpr(Program(out)[ip].arg.exec, env)

(***************************************************************************)
(* Properties of the contract model, checked under SpecGen.                *)
(***************************************************************************)
\* C26: the model of a function holds the contract of the triggering
\* attribute first and then one contract for every other recognized
\* contract attribute of the function, in source order; afterwards the
\* function carries no recognized contract attribute, and its other
\* attributes are the ones it had, in their order (the synthesis of
\* codegen.rs puts the generated documentation after them).  The function
\* the model is built for is the one without the pre-conditions that pre
\* of pre.rs has expanded before.
C26_ModelInSourceOrder ==
    (pipeline \in {"mod", "codegen"} /\ out.state = "expanded"
        /\ ~PendingOf(pipeline, out)) =>
        LET Recognized ==
                {"pre", "post", "invariant", "debug_pre", "debug_post",
                 "debug_invariant", "test_pre", "test_post", "test_invariant"}
            IsContract(a) == a.name \in Recognized
            IsOther(a) == a.name \notin Recognized
            g == Cardinality({k \in 1..Len(out.layers) :
                                out.layers[k].wrap = "block"})
            all == SelectSeq(func.attrs, IsContract)
            written == SubSeq(all, g + 1, Len(all))
            built == SubSeq(out.contracts, g + 1, Len(out.contracts))
            others == SelectSeq(func.attrs, IsOther)
            Conditions(a) ==
                LET n == Len(a.args.items)
                IN  IF n > 0 /\ a.args.items[n][1] = "str"
                    THEN SubSeq(a.args.items, 1, n - 1) ELSE a.args.items
        IN  /\ Len(built) = Len(written)
            /\ \A k \in 1..Len(written) :
                  /\ built[k].ty = contract_type_and_mode(written[k].name).ty
                  /\ built[k].mode = contract_type_and_mode(written[k].name).mode
                  /\ built[k].streams = Conditions(written[k])
            /\ \A k \in 1..Len(out.attrs) : ~IsContract(out.attrs[k])
            /\ Len(out.attrs) >= Len(others)
            /\ SubSeq(out.attrs, 1, Len(others)) = others
            /\ \A k \in (Len(others) + 1)..Len(out.attrs) :
                  /\ pipeline = "codegen" /\ built # <<>>
                  /\ out.attrs[k].name = "doc"
                  /\ out.attrs[k].args.items[1][1] = "lit"

\* #[doc] #[inline] #[debug_post] #[invariant] #[pre]: debug_post triggers
\* the expansion, the model holds the three contracts with debug_post
\* first and the function keeps doc and inline.
C26_Witness ==
    /\ pipeline = "mod" /\ out.state = "expanded"
    /\ Len(func.attrs) = 5
    /\ Len(out.contracts) = 3 /\ Len(out.layers) = 1
    /\ [k \in 1..3 |-> <<out.contracts[k].ty, out.contracts[k].mode>>]
          = << <<"Post", "Debug">>, <<"Invariant", "Always">>, <<"Pre", "Always">> >>
    /\ [k \in 1..Len(out.attrs) |-> out.attrs[k].name] = <<"doc", "inline">>

(***************************************************************************)
(* Properties of the attribute an impl block hands to its methods, checked *)
(* under SpecImpl.                                                         *)
(***************************************************************************)
\* C29: whenever the invariant of an impl block is handed on to the methods
\* (its resolved mode has a name), the attribute put on every method with a
\* receiver names an attribute macro the crate exports, and that macro is
\* the invariant macro that declares the resolved mode of the block; this
\* includes the mode LogOnly.
C29_AttachedNameIsExported ==
    [][ (impl_.state = "source" /\ impl_'.state = "expanded") =>
            LET resolved == lib_final_mode(lib_exported(impl_.attrs[1].name).mode)
            IN  lib_name(resolved) # <<>> =>
                  \A i \in 1..Len(impl_.items) :
                      (IsMethod(impl_.items[i]) /\ impl_.items[i].inputs # <<>>
                          /\ impl_.items[i].inputs[1] = <<"self">>) =>
                          /\ impl_'.items[i].attrs # <<>>
                          /\ lib_exported(impl_'.items[i].attrs[1].name).some
                          /\ lib_exported(impl_'.items[i].attrs[1].name).ty = "Invariant"
                          /\ lib_exported(impl_'.items[i].attrs[1].name).mode = resolved
      ]_vars

(***************************************************************************)
(* Properties of the invariant macros of lib.rs, checked under SpecGen.    *)
(***************************************************************************)
\* C30: with disable_contracts on, the expansion of well-formed invariant
\* attributes on a function never panics, and the expanded function holds
\* no check and the body as written.
C30_DisabledInvariantExpands ==
    LET IsInvariant(a) ==
            a.name \in {"invariant", "debug_invariant", "test_invariant"}
        WellFormed(a) == parse_attributes(a.args).state # "panic"
    IN  (/\ features.disable_contracts /\ pipeline = "lib"
         /\ \A i \in 1..Len(func.attrs) :
               IsInvariant(func.attrs[i]) /\ WellFormed(func.attrs[i])) =>
            /\ out.state # "panic"
            /\ out.state = "expanded" =>
                  /\ out.body = func.body
                  /\ \A k \in 1..Len(out.layers) :
                        /\ SelectSeq(out.layers[k].pre, IsCheck) = <<>>
                        /\ SelectSeq(out.layers[k].post, IsCheck) = <<>>

====
